---------------------------- MODULE Spec2Model ----------------------------
(***************************************************************************)
(* A model of payload/darksite/apply.py, the one-shot convergence          *)
(* orchestrator of a darksite cluster node: the WireGuard plane renderer   *)
(* with its backup rotation, the local key manager, the salt command-mesh  *)
(* client, the known-hosts seeder, the reachability gate and the driver    *)
(* main().                                                                 *)
(*                                                                         *)
(* Text is modelled as a sequence of atoms.  An atom is a tuple of strings *)
(* (the pieces of an f-string); LF is the line feed and SP one blank.      *)
(* Files hold texts; NoFile is the content of a path that does not exist.  *)
(***************************************************************************)
EXTENDS Integers, Sequences, FiniteSets, TLC

VARIABLES
    host,        \* what `hostname -f` / `hostname -s` answer on this node
    seed,        \* the parsed seed document, or NoSeed when no seed file exists
    iface,       \* the plane the renderer is called for (SpecRender, SpecKeys)
    conf,        \* /etc/wireguard/<plane>.conf, per plane
    conf0,       \* conf as it was before the first render (history)
    backups,     \* per plane, the <plane>.conf.bak.<ts> files: a set of [ts, text]
    clock,       \* time.time() in whole seconds
    wgkey,       \* /etc/wireguard/<plane>.key, per plane
    wgpub,       \* /etc/wireguard/<plane>.pub, per plane
    keygen,      \* number of private keys `wg genkey` has produced so far
    prev,        \* the render call before the last one (history)
    last,        \* the last render call: inputs and outcome (history)
    nrenders,    \* number of render calls made (history, bounded)
    kcall,       \* the last ensure_wg_keys_local call (history)
    pc,          \* where main() stands
    idx,         \* the index into PLANES of the loop main() is in
    strict,      \* ANSIBLE_STRICT (KUBEOS_ANSIBLE_STRICT)
    require_all, \* SALT_REQUIRE_ALL (KUBEOS_SALT_REQUIRE_ALL)
    user_exists, \* the local account ANSIBLE_USER exists
    akey,        \* the service account's SSH key pair: [priv, pub]
    inventory,   \* /srv/ansible/inventory/hosts.ini, its lines, or NoInventory
    site_exists, \* /srv/ansible/site.yml exists
    known_hosts, \* UNIT_KNOWN_HOSTS, its lines, or NoFile
    probes,      \* test.ping probes salt_ping_wait has issued in this run
    ping,        \* how the last of these probes ended (history)
    scall,       \* the last direct call of salt_cmd: inputs and result (SpecSalt)
    gate,        \* the locals of wait_for_ansible_reachability
    trace,       \* what this run of main() has called so far (history)
    failure,     \* the exception main() has seen last, and where (history)
    exit_code,   \* the exit status of the run; -1 while it runs
    hist,        \* the versions of a config that were replaced: [ts, text] (SpecBackups)
    stream,      \* run_stream and the subprocess it reads from (SpecStream)
    wr,          \* write_if_changed taken step by step (SpecWrite)
    khcall,      \* the last seeding run of the known-hosts file (SpecKnownHosts)
    authk,       \* a fleet node's authorized_keys file and its runs (SpecPush)
    jx,          \* the last call of _extract_json_object (SpecJson)
    gt,          \* the last iteration of the reachability gate (SpecGate)
    kw,          \* a run of ensure_wg_keys_local, step by step (SpecKeyKill)
    rf           \* a run of wg-refresh-planes.py, plane by plane (SpecRefresh)

rvars == <<host, seed, iface, conf, conf0, backups, clock, wgkey, wgpub,
           keygen, prev, last, nrenders, kcall>>

mvars == <<pc, idx, strict, require_all, user_exists, akey, inventory, site_exists,
           known_hosts, probes, ping, scall, gate, trace, failure, exit_code>>

xvars == <<hist, stream, wr, khcall, authk, jx, gt, kw, rf>>

vars == <<rvars, mvars, xvars>>

-----------------------------------------------------------------------------
(* Bounds of the model *)

MaxRenders == 2
MaxClock == 1
MaxWrites == 3       \* calls of write_if_changed in SpecBackups
MaxBackupClock == 2  \* seconds that pass in SpecBackups
MaxSeedings == 3     \* calls of ensure_unit_known_hosts in SpecKnownHosts
MaxBoots == 3        \* executions of the provisioning fragment in SpecPush
MaxFileLen == 3      \* characters and line feeds of the first authorized_keys
MaxTokens == 4       \* tokens of a response text in SpecJson
MaxRuns == 3         \* calls of write_if_changed in SpecWrite, kills between them
MaxKeyCalls == 3
MaxKeyRuns == 2       \* runs of the orchestrator in SpecKeyKill
MaxRefreshRuns == 2   \* runs of wg-refresh-planes.py in SpecRefresh
MaxRefreshClock == 2  \* seconds that pass in SpecRefresh
MaxGateTicks == 2   \* iterations of the gate's loop before its deadline has passed
MaxUp == 2          \* minions that answer a test.ping
MaxElapsed == 4     \* seconds a run_stream call is followed for
MaxLines == 2       \* lines of a subprocess that are counted
StreamTimeout == 2  \* the timeout= of a run_stream call, in seconds

\* Settings the program reads from its environment, kept small here
BACKUP_KEEP == 2             \* KUBEOS_WG_BACKUP_KEEP
SALT_PING_RETRIES == 2       \* KUBEOS_SALT_PING_RETRIES
SALT_EXPECTED_MINIONS == 2   \* KUBEOS_SALT_EXPECTED_MINIONS

(* Program constants *)

SALT_CMD_RETRIES == 2        \* salt_cmd(..., retries: int = 2)
PUSH_RETRIES == 1            \* salt_cmd(SALT_TARGET, ..., retries=1)

PLANES == <<"wg1", "wg2", "wg3">>
Planes == {PLANES[i] : i \in 1..Len(PLANES)}

-----------------------------------------------------------------------------
(* Text *)

LF == <<"LF">>
SP == <<" ">>
PEER == <<"[Peer]">>
IFACE == <<"[Interface]">>
ADDR == <<"Address = 10.0.0.1/24">>
NoFile == << <<"ENOENT">> >>

RECURSIVE splitlines(_)
\* str.splitlines(): the lines of a text, without their line feeds; a final
\* line feed opens no further line.
splitlines(t) ==
    IF t = <<>> THEN <<>>
    ELSE IF \E i \in 1..Len(t) : t[i] = LF
         THEN LET i == CHOOSE k \in 1..Len(t) :
                           t[k] = LF /\ \A j \in 1..(k - 1) : t[j] # LF
              IN <<SubSeq(t, 1, i - 1)>> \o splitlines(SubSeq(t, i + 1, Len(t)))
         ELSE <<t>>

RECURSIVE join(_)
\* "\n".join(lines)
join(lines) ==
    IF lines = <<>> THEN <<>>
    ELSE IF Len(lines) = 1 THEN lines[1]
    ELSE lines[1] \o <<LF>> \o join(Tail(lines))

RECURSIVE rstrip(_)
\* str.rstrip(): trailing white space (blanks and line feeds) removed
rstrip(t) ==
    IF t # <<>> /\ t[Len(t)] \in {LF, SP} THEN rstrip(SubSeq(t, 1, Len(t) - 1))
    ELSE t

RECURSIVE lstrip(_)
lstrip(t) ==
    IF t # <<>> /\ t[1] \in {LF, SP} THEN lstrip(Tail(t)) ELSE t

strip(t) == lstrip(rstrip(t))

\* line.strip().startswith("[Peer]")
is_peer_marker(line) == strip(line) # <<>> /\ Head(strip(line)) = PEER

RECURSIVE take_until_peer(_)
take_until_peer(lines) ==
    IF lines = <<>> \/ is_peer_marker(Head(lines)) THEN <<>>
    ELSE <<Head(lines)>> \o take_until_peer(Tail(lines))

read_iface_block(text) == take_until_peer(splitlines(text))

\* The bytes of a text that precede its first [Peer] marker line (the whole
\* text when it has none).
RECURSIVE HeaderBytes(_)
HeaderBytes(t) ==
    IF t = <<>> THEN <<>>
    ELSE LET ls == splitlines(t)
         IN IF is_peer_marker(ls[1]) THEN <<>>
            ELSE IF \E i \in 1..Len(t) : t[i] = LF
                 THEN LET i == CHOOSE k \in 1..Len(t) :
                                   t[k] = LF /\ \A j \in 1..(k - 1) : t[j] # LF
                      IN SubSeq(t, 1, i) \o HeaderBytes(SubSeq(t, i + 1, Len(t)))
                 ELSE t


-----------------------------------------------------------------------------
(* Host names.  The names of the model are few, so str.lower(), the first  *)
(* label of a name and the order sorted() puts names in are tables.        *)

lower(s) ==
    CASE s = "Node1.local" -> "node1.local"
      [] s = "Node1" -> "node1"
      [] OTHER -> s

first_label(s) ==
    CASE s \in {"master.local", "master"} -> "master"
      [] s \in {"node1.local", "node1"} -> "node1"
      [] s \in {"Node1.local", "Node1"} -> "Node1"
      [] s \in {"node2.local", "node2"} -> "node2"
      [] s \in {"node9.local", "node9"} -> "node9"
      [] OTHER -> s

\* kl.startswith(short + ".") or kl == short, for a short name without dots
short_matches(kl, short) == short # "" /\ first_label(kl) = short

\* Python's order of str: upper case sorts before lower case
name_rank(s) ==
    CASE s = "Node1.local" -> 1
      [] s = "master.local" -> 2
      [] s = "node1.local" -> 3
      [] s = "node2.local" -> 4
      [] OTHER -> 5

H_master == [fqdn |-> "master.local", short |-> "master"]
H_node1 == [fqdn |-> "node1.local", short |-> "node1"]
H_node1_caps == [fqdn |-> "Node1.local", short |-> "Node1"]
H_node1_short == [fqdn |-> "", short |-> "node1"]
H_stranger == [fqdn |-> "node9.local", short |-> "node9"]
Hosts == {H_master, H_node1, H_node1_caps, H_node1_short, H_stranger}

\* hostname -f, else hostname -s
hostname_fqdn(h) == IF h.fqdn # "" THEN h.fqdn ELSE h.short

is_master(h) == first_label(lower(h.fqdn)) = "master"

-----------------------------------------------------------------------------
(* The seed document: nodes in the order of the JSON object, each with its *)
(* plane addresses (NoIp where the node has none) and its endpoint; planes   *)
(* with cidr and port ("" where missing).                                  *)

NoSeed == [present |-> FALSE, nodes |-> <<>>, planes |-> <<>>]

IpOf(n, p) ==
    LET net == CASE p = "wg1" -> "10.78.0." [] p = "wg2" -> "10.79.0." [] OTHER -> "10.80.0."
        h == CASE n = "master.local" -> "1" [] n = "node1.local" -> "2" [] OTHER -> "3"
    IN <<net, h>>

NoIp == <<>>

Node(n, has_ip, ep) ==
    [name |-> n, ip |-> [p \in Planes |-> IF has_ip THEN IpOf(n, p) ELSE NoIp], endpoint |-> ep]

PlaneTab(has_cidr) ==
    [p \in Planes |->
        [cidr |-> IF has_cidr
                  THEN (CASE p = "wg1" -> "10.78.0.0/24" [] p = "wg2" -> "10.79.0.0/24"
                          [] OTHER -> "10.80.0.0/24")
                  ELSE "",
         port |-> CASE p = "wg1" -> "51820" [] p = "wg2" -> "51821" [] OTHER -> "51822"]]

N_master == Node("master.local", TRUE, "1.2.3.4")
N_node1 == Node("node1.local", TRUE, "")
N_node2 == Node("node2.local", TRUE, "")

SeedFull == [present |-> TRUE, nodes |-> <<N_master, N_node1, N_node2>>, planes |-> PlaneTab(TRUE)]
SeedReversed == [present |-> TRUE, nodes |-> <<N_node2, N_node1, N_master>>, planes |-> PlaneTab(TRUE)]
SeedNode2NoIp == [present |-> TRUE, nodes |-> <<N_master, N_node1, Node("node2.local", FALSE, "")>>,
                  planes |-> PlaneTab(TRUE)]
SeedNoMaster == [present |-> TRUE, nodes |-> <<N_node1, N_node2>>, planes |-> PlaneTab(TRUE)]
SeedNoCidr == [present |-> TRUE, nodes |-> <<N_master, N_node1, N_node2>>, planes |-> PlaneTab(FALSE)]
Seeds == {SeedFull, SeedReversed, SeedNode2NoIp, SeedNoMaster, SeedNoCidr}

\* load_seed(): the first existing seed path, parsed; raises when none exists
load_seed(sd) == [raised |-> IF ~sd.present THEN "RuntimeError" ELSE "", seed |-> sd]

\* sorted(nodes.items(), key=lambda x: x[0])
\* A hub branch that takes the nodes as the seed map iterates them
sorted_nodes_asis(ns) == ns

RECURSIVE sorted_nodes(_)
sorted_nodes(ns) ==
    IF ns = <<>> THEN <<>>
    ELSE LET i == CHOOSE k \in 1..Len(ns) :
                      \A j \in 1..Len(ns) : name_rank(ns[k].name) <= name_rank(ns[j].name)
             rest == [j \in 1..(Len(ns) - 1) |-> IF j < i THEN ns[j] ELSE ns[j + 1]]
         IN <<ns[i]>> \o sorted_nodes(rest)

ToSet(s) == {s[i] : i \in 1..Len(s)}

\* The first element of a sequence that satisfies a test, as its index (0: none)
FirstIndex(s, Test(_)) ==
    IF \E i \in 1..Len(s) : Test(s[i])
    THEN CHOOSE i \in 1..Len(s) : Test(s[i]) /\ \A j \in 1..(i - 1) : ~Test(s[j])
    ELSE 0

-----------------------------------------------------------------------------
(* The command mesh.  One salt invocation ends in one of these ways:       *)
(*   ok          exit 0 and the output holds a JSON object                 *)
(*   rc_nonzero  non-zero exit, with output                                *)
(*   no_json     exit 0, output without a parsable JSON object             *)
(*   empty_out   no output at all                                          *)
(*   timeout     subprocess.run(timeout=...) raises TimeoutExpired         *)
(* A reply is the JSON object of an ok invocation: minion id and output,   *)
(* in the order of the object.                                             *)

SaltOutcomes == {"ok", "rc_nonzero", "no_json", "empty_out", "timeout"}

\* run_rc(): (rc, out) of a finished subprocess, or the TimeoutExpired that
\* subprocess.run raises when the timeout expires
run_rc(outcome) ==
    [raised |-> IF outcome = "timeout" THEN "TimeoutExpired" ELSE "",
     rc |-> IF outcome \in {"ok", "no_json"} THEN 0 ELSE 1,
     out |-> IF outcome = "empty_out" THEN "" ELSE outcome]

SaltCmdRaises == "TimeoutExpired"

RECURSIVE salt_cmd_loop(_, _, _, _, _)
salt_cmd_loop(attempts, reply, i, n, last_err) ==
    IF i > n
    THEN [raised |-> "", data |-> <<>>, tries |-> n, parsed |-> FALSE,
          warned |-> last_err # ""]
    ELSE LET r == run_rc(attempts[i])
         IN IF r.raised # ""
            THEN [raised |-> SaltCmdRaises, data |-> <<>>, tries |-> i, parsed |-> FALSE,
                  warned |-> FALSE]
            ELSE IF r.rc = 0 /\ attempts[i] = "ok"
                 THEN [raised |-> "", data |-> reply, tries |-> i, parsed |-> TRUE,
                       warned |-> FALSE]
                 ELSE salt_cmd_loop(attempts, reply, i + 1, n, r.out)

\* salt_cmd(target, shell_cmd, retries): attempts[i] is how the i-th salt
\* invocation ends, reply what an ok invocation answers
salt_cmd(attempts, reply, retries) == salt_cmd_loop(attempts, reply, 1, retries + 1, "")

AttemptSeqs(n) == [1..n -> SaltOutcomes]

Entry(id, out) == [id |-> id, out |-> out]

\* Replies to the hub's fleet-wide `cat <plane>.pub`: each spoke answers its
\* key, answers nothing (no key file yet), or does not answer at all.
HubReplies ==
    {<<>>,
     <<Entry("node1.local", "K1")>>,
     <<Entry("node2.local", "K2"), Entry("node1.local", "K1")>>,
     <<Entry("master.local", "KM"), Entry("node1.local", "K1"), Entry("node2.local", "")>>}

\* Replies to a spoke's `salt master* ...`
SpokeReplies ==
    {<<>>, <<Entry("master.local", "")>>, <<Entry("master.local", "MPUB")>>}

\* What salt_cmd can hand back to the renderer
Fetch(r) == [raised |-> r.raised, data |-> r.data]
HubFetch ==
    {Fetch(salt_cmd(a, r, SALT_CMD_RETRIES)) :
        a \in AttemptSeqs(SALT_CMD_RETRIES + 1), r \in HubReplies}
SpokeFetch ==
    {Fetch(salt_cmd(a, r, SALT_CMD_RETRIES)) :
        a \in AttemptSeqs(SALT_CMD_RETRIES + 1), r \in SpokeReplies}

\* dict.get(name) or ""
reply_get(data, name) ==
    LET Is(e) == e.id = name
        i == FirstIndex(data, Is)
    IN IF i = 0 THEN "" ELSE data[i].out

\* pubkeys[name] = value
reply_put(data, name, value) ==
    LET Is(e) == e.id = name
        i == FirstIndex(data, Is)
    IN IF i = 0 THEN Append(data, Entry(name, value))
       ELSE [data EXCEPT ![i] = Entry(name, value)]


-----------------------------------------------------------------------------
(* The renderer *)

\* A key file that does not exist ("" is an empty key file)
KeyAbsent == "ENOENT"


Min(S) == CHOOSE x \in S : \A y \in S : x <= y

RECURSIVE drop_oldest(_, _)
\* backups[:excess], unlinked: the `excess` files with the smallest stamps
drop_oldest(bks, excess) ==
    IF excess <= 0 \/ bks = {} THEN bks
    ELSE LET oldest == CHOOSE b \in bks : b.ts = Min({c.ts : c \in bks})
         IN drop_oldest(bks \ {oldest}, excess - 1)

\* A write_if_changed that never deletes a backup
prune_backups_none(bks) == bks

prune_backups(bks) ==
    IF BACKUP_KEEP <= 0 THEN bks
    ELSE drop_oldest(bks, Cardinality(bks) - (BACKUP_KEEP - 1))

\* write_if_changed(conf_path, desired_text) on a file holding `cur`, with the
\* plane's backups `bks`, at time `now`
write_if_changed(cur, desired_text, bks, now) ==
    LET current == IF cur # NoFile THEN cur ELSE <<>>
    IN IF current = desired_text
       THEN [changed |-> FALSE, conf |-> cur, backups |-> bks]
       ELSE [changed |-> TRUE,
             conf |-> desired_text,
             backups |->
                IF cur # NoFile /\ BACKUP_KEEP > 0
                THEN {b \in prune_backups(bks) : b.ts # now} \cup {[ts |-> now, text |-> cur]}
                ELSE bks]

\* The lines of one stanza; each line holds one atom, the last line is empty
hub_stanza(node, p, pk) ==
    << <<PEER>>,
       << <<"# ", node.name, " (", p, ")">> >>,
       << <<"PublicKey = ", pk>> >>,
       << <<"AllowedIPs = ">> \o node.ip[p] \o <<"/32">> >>,
       << <<"PersistentKeepalive = 25">> >>,
       <<>> >>

RECURSIVE hub_peers(_, _, _, _)
\* the loop over sorted(nodes.items()) of the hub branch
hub_peers(nodes, p, my_ip, pubkeys) ==
    IF nodes = <<>> THEN <<>>
    ELSE LET node == Head(nodes)
             ip == node.ip[p]
             pk == reply_get(pubkeys, node.name)
         IN (IF ip = NoIp \/ ip = my_ip \/ pk = ""
             THEN <<>>
             ELSE hub_stanza(node, p, pk))
            \o hub_peers(Tail(nodes), p, my_ip, pubkeys)

\* A spoke stanza that routes the hub's own address only
spoke_stanza_host_route(master, p, master_pk, planes) ==
    << <<PEER>>,
       << <<"# ", master.name, " (", p, ")">> >>,
       << <<"PublicKey = ", master_pk>> >>,
       << <<"AllowedIPs = ">> \o master.ip[p] \o <<"/32">> >>,
       << <<"Endpoint = ", master.endpoint, ":", planes[p].port>> >>,
       << <<"PersistentKeepalive = 25">> >>,
       <<>> >>

spoke_stanza(master, p, master_pk, planes) ==
    << <<PEER>>,
       << <<"# ", master.name, " (", p, ")">> >>,
       << <<"PublicKey = ", master_pk>> >>,
       << <<"AllowedIPs = ", planes[p].cidr>> >>,
       << <<"Endpoint = ", master.endpoint, ":", planes[p].port>> >>,
       << <<"PersistentKeepalive = 25">> >>,
       <<>> >>

\* "\n".join(desired).rstrip() + "\n"
compose(desired) == rstrip(join(desired)) \o <<LF>>

\* A render that has opened the config for writing before it raises
Raise_file_opened(why, cur, bks) ==
    [raised |-> why, changed |-> FALSE, conf |-> <<>>, backups |-> bks, text |-> <<>>]

\* raise RuntimeError(...): nothing has been written yet
Raise(why, cur, bks) ==
    [raised |-> why, changed |-> FALSE, conf |-> cur, backups |-> bks, text |-> <<>>]

\* render_plane_conf_from_seed(seed, iface) on host h, with the plane's file
\* `cur`, its backups `bks`, the local public key file `pub`, at time `now`;
\* `fetch` is what salt_cmd hands back (or the exception it raises).
render_plane_conf_from_seed(sd, p, h, cur, bks, pub, now, fetch) ==
    IF cur = NoFile THEN Raise("missing base config", cur, bks)
    ELSE
    LET iface_lines == read_iface_block(cur)
        nodes == sd.nodes
        hn0 == lower(hostname_fqdn(h))
        IsHn0(n) == lower(n.name) = hn0
        short == lower(h.short)
        Short(n) == short_matches(lower(n.name), short)
        match == IF FirstIndex(nodes, IsHn0) # 0 THEN FirstIndex(nodes, IsHn0)
                 ELSE FirstIndex(nodes, Short)
    IN IF match = 0 THEN Raise("node not found in seed", cur, bks)
       ELSE
       LET hn == lower(nodes[match].name)
           IsHn(n) == lower(n.name) = hn
           canonical == FirstIndex(nodes, IsHn)
           me == nodes[canonical]
           my_ip == me.ip[p]
       IN IF my_ip = NoIp THEN Raise("seed missing plane ip", cur, bks)
          ELSE IF is_master(h)
          THEN IF fetch.raised # "" THEN Raise(fetch.raised, cur, bks)
               ELSE
               LET pubkeys == IF pub # KeyAbsent
                              THEN reply_put(fetch.data, hostname_fqdn(h), pub)
                              ELSE fetch.data
                   desired == iface_lines \o << <<>> >>
                              \o hub_peers(sorted_nodes(nodes), p, my_ip, pubkeys)
                   w == write_if_changed(cur, compose(desired), bks, now)
               IN [raised |-> "", changed |-> w.changed, conf |-> w.conf,
                   backups |-> w.backups, text |-> compose(desired)]
          ELSE
          LET IsMaster(n) == first_label(lower(n.name)) = "master" /\ lower(n.name) # "master"
              mi == FirstIndex(nodes, IsMaster)
          IN IF mi = 0 THEN Raise("seed has no master entry", cur, bks)
             ELSE IF fetch.raised # "" THEN Raise(fetch.raised, cur, bks)
             ELSE
             LET NonEmpty(e) == e.out # ""
                 ki == FirstIndex(fetch.data, NonEmpty)
             IN IF ki = 0 THEN Raise("no master pubkey", cur, bks)
                ELSE IF sd.planes[p].cidr = "" THEN Raise("seed missing cidr", cur, bks)
                ELSE IF nodes[mi].endpoint = "" THEN Raise("KeyError", cur, bks)
                ELSE
                LET desired == iface_lines \o << <<>> >>
                               \o spoke_stanza(nodes[mi], p, fetch.data[ki].out, sd.planes)
                    w == write_if_changed(cur, compose(desired), bks, now)
                IN [raised |-> "", changed |-> w.changed, conf |-> w.conf,
                    backups |-> w.backups, text |-> compose(desired)]


-----------------------------------------------------------------------------
(* The inventory, the service account and the known-hosts store *)

NoInventory == << [kind |-> "ENOENT", host |-> "", ansible_host |-> ""] >>

Line(k, h, a) == [kind |-> k, host |-> h, ansible_host |-> a]

\* hosts.ini: a line is a comment, a [group] header, or a host with its
\* ansible_host ("" when the line gives none)
InvFull ==
    << Line("comment", "", ""), Line("group", "", ""),
       Line("host", "node1", "10.78.0.2"), Line("host", "node2", "10.78.0.3"),
       Line("host", "localhost", "127.0.0.1"), Line("host", "bare", ""),
       Line("host", "node1", "10.78.0.2") >>
InvLocalOnly == << Line("group", "", ""), Line("host", "localhost", "127.0.0.1") >>
Inventories == {NoInventory, InvLocalOnly, InvFull}

RECURSIVE dedupe(_, _)
\* the elements of a sequence in order, without those met before
dedupe(s, seen) ==
    IF s = <<>> THEN <<>>
    ELSE IF Head(s) \in seen THEN dedupe(Tail(s), seen)
    ELSE <<Head(s)>> \o dedupe(Tail(s), seen \cup {Head(s)})

RECURSIVE host_lines(_)
host_lines(inv) ==
    IF inv = <<>> THEN <<>>
    ELSE (IF Head(inv).kind = "host" /\ Head(inv).ansible_host # ""
          THEN << <<Head(inv).host, Head(inv).ansible_host>> >>
          ELSE <<>>) \o host_lines(Tail(inv))

\* inventory_targets(): [(hostname, ansible_host), ...], de-duplicated
inventory_targets(inv) ==
    IF inv = NoInventory THEN <<>> ELSE dedupe(host_lines(inv), {})

\* ip in ("localhost",) or ip.startswith("127.")
is_local(ip) == ip \in {"localhost", "127.0.0.1"}

RECURSIVE gate_ips(_)
gate_ips(targets) ==
    IF targets = <<>> THEN <<>>
    ELSE (IF is_local(Head(targets)[2]) THEN <<>> ELSE <<Head(targets)[2]>>)
         \o gate_ips(Tail(targets))

RECURSIVE scan_items(_)
scan_items(targets) ==
    IF targets = <<>> THEN <<>>
    ELSE <<Head(targets)[1], Head(targets)[2]>> \o scan_items(Tail(targets))

\* `ssh-keyscan -T 3 -H h`: the hashed line of a host that answers, under the
\* salt of this scan
RECURSIVE scan_lines(_, _, _)
scan_lines(items, answers, salt) ==
    IF items = <<>> THEN <<>>
    ELSE (IF Head(items) \in answers THEN << <<"|1|", salt, "|", Head(items)>> >> ELSE <<>>)
         \o scan_lines(Tail(items), answers, salt)

\* A merge that only concatenates: cat "$KH" "$tmp" > "$KH.new"
awk_unique_cat(lines) == lines

\* cat "$KH" "$tmp" | awk '!seen[$0]++': the first occurrence of every line,
\* in order
awk_unique(lines) == dedupe(lines, {})

\* ensure_unit_known_hosts() on the store `kh`: `answers` are the scanned
\* names that answer, `script_rc` the exit status of the seeding script
ensure_unit_known_hosts(kh, has_user, inv, answers, salt, script_rc) ==
    IF ~has_user
    THEN [raised |-> "CalledProcessError", kh |-> kh, warned |-> FALSE]
    ELSE LET touched == IF kh = NoFile THEN <<>> ELSE kh
             targets == inventory_targets(inv)
             items == dedupe(scan_items(targets), {})
         IN IF targets = <<>>
            THEN [raised |-> "", kh |-> touched, warned |-> TRUE]
            ELSE IF script_rc # 0
            THEN [raised |-> "", kh |-> touched, warned |-> TRUE]
            ELSE [raised |-> "",
                  kh |-> awk_unique(touched \o scan_lines(items, answers, salt)),
                  warned |-> FALSE]

NoKeyPair == [priv |-> FALSE, pub |-> KeyAbsent]

\* ensure_ansible_user_on_master(): useradd_ok and keygen_ok tell whether
\* useradd and ssh-keygen exit 0; install -d fails when the account is missing
ensure_ansible_user_on_master(has_user, k, useradd_ok, keygen_ok) ==
    LET user == has_user \/ useradd_ok
    IN IF ~user
       THEN [raised |-> "CalledProcessError", user |-> user, akey |-> k, pub |-> ""]
       ELSE IF ~k.priv \/ k.pub = KeyAbsent
       THEN IF ~keygen_ok
            THEN [raised |-> "CalledProcessError", user |-> user, akey |-> k, pub |-> ""]
            ELSE [raised |-> "", user |-> user, akey |-> [priv |-> TRUE, pub |-> "ssh-ed25519 APUB"],
                  pub |-> "ssh-ed25519 APUB"]
       ELSE IF k.pub = ""
       THEN [raised |-> "RuntimeError", user |-> user, akey |-> k, pub |-> ""]
       ELSE [raised |-> "", user |-> user, akey |-> k, pub |-> k.pub]

\* Before the gate is entered: `remaining` (pending), the iterations made,
\* whether the deadline has passed.  (last_err and last_report, which only feed
\* the log lines, are not in the model; `done`, which every iteration makes
\* anew, is part of what one iteration yields: check_ips.)
NoGate == [pending |-> {}, ticks |-> 0, entered |-> FALSE, timed_out |-> FALSE]

NoPing == [kind |-> "none", up |-> 0]

NoCall == [called |-> FALSE]

\* The variables of the other specifications, where these are not run
InitOther ==
    /\ hist = <<>>
    /\ stream = NoCall
    /\ wr = NoCall
    /\ khcall = NoCall
    /\ authk = NoCall
    /\ jx = NoCall /\ gt = NoCall /\ kw = NoCall /\ rf = NoCall

\* The driver's variables where main() is not run
InitIdle ==
    /\ pc = "idle"
    /\ idx = 0
    /\ strict = FALSE
    /\ require_all = TRUE
    /\ user_exists = TRUE
    /\ akey = NoKeyPair
    /\ inventory = InvFull
    /\ site_exists = TRUE
    /\ known_hosts = NoFile
    /\ probes = 0
    /\ ping = NoPing
    /\ scall = NoCall
    /\ gate = NoGate
    /\ trace = <<>>
    /\ failure = [phase |-> "", why |-> ""]
    /\ exit_code = -1
    /\ InitOther

-----------------------------------------------------------------------------
(* SpecRender: render_plane_conf_from_seed called again and again for one  *)
(* plane, on any host, seed and base file, with any answer of the mesh.    *)

\* Base files as provisioned out of band (NoFile: none was provisioned)
BaseFiles ==
    { NoFile,
      <<IFACE, LF>>,
      <<IFACE, LF, ADDR>>,
      <<IFACE, LF, ADDR, SP, LF, LF>>,
      <<IFACE, LF, ADDR, LF, LF, PEER, LF, <<"PublicKey = ", "OLD">>, LF>> }

\* The nodes the orchestrator is run on: what the host answers, and the seed
Scenarios ==
    { <<H_master, SeedFull>>, <<H_master, SeedReversed>>, <<H_master, SeedNode2NoIp>>,
      <<H_master, SeedNoMaster>>,
      <<H_node1, SeedFull>>, <<H_node1_caps, SeedReversed>>, <<H_node1_short, SeedFull>>,
      <<H_node1, SeedNoMaster>>, <<H_node1, SeedNoCidr>>, <<H_stranger, SeedFull>> }

InitFiles(b) ==
    /\ conf = [p \in Planes |-> b]
    /\ conf0 = conf
    /\ backups = [p \in Planes |-> {}]
    /\ clock = 0

\* The keys of a node that has run before: one generated per plane
OldKey(p) == CASE p = "wg1" -> "priv1" [] p = "wg2" -> "priv2" [] OTHER -> "priv3"
OldPub(p) == CASE p = "wg1" -> "pub1" [] p = "wg2" -> "pub2" [] OTHER -> "pub3"

InitKeys ==
    /\ wgkey = [p \in Planes |-> OldKey(p)]
    /\ wgpub = [p \in Planes |-> OldPub(p)]
    /\ keygen = 3
    /\ kcall = [called |-> FALSE, n |-> 0]

InitRender ==
    /\ \E sc \in Scenarios : host = sc[1] /\ seed = sc[2]
    /\ iface \in Planes
    /\ \E b \in BaseFiles : InitFiles(b)
    /\ InitKeys
    /\ prev = NoCall
    /\ last = NoCall
    /\ nrenders = 0
    /\ InitIdle

\* One call of render_plane_conf_from_seed(seed, iface)
RenderCall ==
    /\ nrenders < MaxRenders
    /\ \E fetch \in (IF is_master(host) THEN HubFetch ELSE SpokeFetch) :
          LET r == render_plane_conf_from_seed(seed, iface, host, conf[iface],
                                               backups[iface], wgpub[iface], clock, fetch)
          IN /\ conf' = [conf EXCEPT ![iface] = r.conf]
             /\ backups' = [backups EXCEPT ![iface] = r.backups]
             /\ last' = [called |-> TRUE, plane |-> iface, fetch |-> fetch,
                         raised |-> r.raised, changed |-> r.changed,
                         pre |-> conf[iface], post |-> r.conf, text |-> r.text]
             /\ prev' = last
    /\ nrenders' = nrenders + 1
    /\ UNCHANGED <<host, seed, iface, conf0, clock, wgkey, wgpub, keygen, kcall>>
    /\ UNCHANGED mvars
    /\ UNCHANGED xvars

\* A second passes (time.strftime("%Y%m%d%H%M%S") changes)
Tick ==
    /\ clock < MaxClock
    /\ clock' = clock + 1
    /\ UNCHANGED <<host, seed, iface, conf, conf0, backups, wgkey, wgpub, keygen,
                   prev, last, nrenders, kcall>>
    /\ UNCHANGED mvars
    /\ UNCHANGED xvars

NextRender == RenderCall \/ Tick

SpecRender == InitRender /\ [][NextRender]_vars


-----------------------------------------------------------------------------
(* Claims about the renderer (SpecRender) *)

\* The key a node really has on a plane: what its <plane>.pub holds once the
\* node has published it.  The mesh answers this key, or nothing.
TrueKey(n) ==
    CASE n = "node1.local" -> "K1" [] n = "node2.local" -> "K2" [] OTHER -> "KM"

\* The text holds the hub's peer stanza for a node of the seed
HasStanza(text, node, p) ==
    LET ls == splitlines(text)
        st == SubSeq(hub_stanza(node, p, TrueKey(node.name)), 1, 5)
    IN text # NoFile /\ \E i \in 1..Len(ls) : i + 4 <= Len(ls) /\ SubSeq(ls, i, i + 4) = st

TwoRendersSameInputs ==
    /\ prev.called /\ last.called
    /\ prev.raised = "" /\ last.raised = ""
    /\ prev.fetch = last.fetch

\* C1: two renders in a row of a plane with the same seed and the same
\* mesh-reported keys: the second returns changed = false and leaves the file
\* byte-identical to what the first produced.
C1_RenderIdempotent ==
    TwoRendersSameInputs => (~last.changed /\ last.post = prev.post)

\* C2: after any number of renders the bytes before the first [Peer] marker
\* line are those that preceded the first [Peer] marker before the first render.
C2_HeaderPreserved ==
    (last.called /\ conf0[iface] # NoFile)
        => HeaderBytes(conf[iface]) = HeaderBytes(conf0[iface])

\* C3: on the hub, a peer stanza the plane config held before a render (seed
\* and the node's key unchanged) is still in the config after the render,
\* whatever the command-mesh key fetch returned.
C3_StanzaSurvivesRerun ==
    (last.called /\ is_master(host))
        => \A i \in 1..Len(seed.nodes) :
              HasStanza(last.pre, seed.nodes[i], iface)
                  => HasStanza(conf[iface], seed.nodes[i], iface)


\* The lines of a rendered text from its first [Peer] line on
PeerSection(text) ==
    LET ls == splitlines(text)
        k == FirstIndex(ls, is_peer_marker)
    IN IF k = 0 THEN <<>> ELSE SubSeq(ls, k, Len(ls))

\* The seed entry of the local node
IsSelf(n) == lower(n.name) = lower(hostname_fqdn(host))

\* The key the mesh reported for a node in the last render ("" when none)
MeshKey(name) ==
    LET d == last.fetch.data
    IN IF \E i \in 1..Len(d) : d[i].id = name
       THEN d[CHOOSE i \in 1..Len(d) : d[i].id = name].out
       ELSE ""

\* The nodes the hub owes a stanza: not the hub, with a plane address and a key
HubPeerNodes ==
    {n \in ToSet(seed.nodes) : ~IsSelf(n) /\ n.ip[last.plane] # NoIp /\ MeshKey(n.name) # ""}

\* The j-th of them in ascending order of the names
NthPeer(j) ==
    CHOOSE n \in HubPeerNodes :
        Cardinality({m \in HubPeerNodes : name_rank(m.name) < name_rank(n.name)}) = j - 1

\* C14: a render on the hub that does not fail writes, after the header,
\* exactly one stanza per node other than the hub that has a plane address in
\* the seed and a non-empty key reported by the mesh, with AllowedIPs =
\* <ip>/32 and PersistentKeepalive = 25, in ascending order of the node names
\* whatever the order of the seed; and when the mesh answers, the render
\* fails for no other reason than a missing base config or local identity.
C14_HubPeerList ==
    (last.called /\ is_master(host)) =>
        /\ last.fetch.raised = "" =>
              last.raised \in {"", "missing base config", "node not found in seed",
                               "seed missing plane ip"}
        /\ last.raised = "" =>
              LET ps == PeerSection(last.text)
                  k == Cardinality(HubPeerNodes)
              IN /\ Len(ps) = IF k = 0 THEN 0 ELSE 6 * k - 1
                 /\ \A j \in 1..k :
                       LET n == NthPeer(j)
                           b == 6 * (j - 1)
                       IN /\ ps[b + 1] = <<PEER>>
                          /\ ps[b + 2] = << <<"# ", n.name, " (", last.plane, ")">> >>
                          /\ ps[b + 3] = << <<"PublicKey = ", MeshKey(n.name)>> >>
                          /\ ps[b + 4] = << <<"AllowedIPs = ">> \o n.ip[last.plane] \o <<"/32">> >>
                          /\ ps[b + 5] = << <<"PersistentKeepalive = 25">> >>
                          /\ j < k => ps[b + 6] = <<>>

\* C14, its case: the seed lists the nodes in descending order, the mesh
\* reported the keys of two spokes, and the hub has rendered
C14_Witness ==
    /\ last.called /\ is_master(host) /\ last.raised = ""
    /\ seed = SeedReversed
    /\ Cardinality(HubPeerNodes) = 2

\* The keys the mesh handed back in the last render
FetchedKeys == {last.fetch.data[i].out : i \in 1..Len(last.fetch.data)} \ {""}

\* The seed entries of the hub
HubNodes == {n \in ToSet(seed.nodes) : first_label(lower(n.name)) = "master"}

\* C15: a render on a spoke that does not fail writes, after the header,
\* exactly one stanza: the hub's, with the key fetched through the mesh,
\* AllowedIPs = the plane's CIDR of the seed and Endpoint = <hub endpoint>:
\* <plane port> of the seed; when the mesh hands back no non-empty key the
\* render fails.
C15_SpokePeerList ==
    (last.called /\ ~is_master(host)) =>
        /\ FetchedKeys = {} => last.raised # ""
        /\ last.raised = "" =>
              \E m \in HubNodes, key \in FetchedKeys :
                 PeerSection(last.text) =
                    << <<PEER>>,
                       << <<"# ", m.name, " (", last.plane, ")">> >>,
                       << <<"PublicKey = ", key>> >>,
                       << <<"AllowedIPs = ", seed.planes[last.plane].cidr>> >>,
                       << <<"Endpoint = ", m.endpoint, ":", seed.planes[last.plane].port>> >>,
                       << <<"PersistentKeepalive = 25">> >> >>

\* C15, its case: a spoke has rendered with the hub's key MPUB
C15_Witness ==
    /\ last.called /\ ~is_master(host) /\ last.raised = ""
    /\ FetchedKeys = {"MPUB"}
    /\ last.pre # last.post

-----------------------------------------------------------------------------
(* The local key manager *)

\* `wg genkey`: the n-th key generated on this node
wg_genkey(n) ==
    CASE n = 1 -> "priv1" [] n = 2 -> "priv2" [] n = 3 -> "priv3" [] n = 4 -> "priv4"
      [] n = 5 -> "priv5" [] n = 6 -> "priv6" [] n = 7 -> "priv7" [] OTHER -> "priv8"

\* `wg pubkey < key`: the public key of a private key
wg_pubkey(k) ==
    CASE k = "priv1" -> "pub1" [] k = "priv2" -> "pub2" [] k = "priv3" -> "pub3"
      [] k = "priv4" -> "pub4" [] k = "priv5" -> "pub5" [] k = "priv6" -> "pub6"
      [] k = "priv7" -> "pub7" [] OTHER -> "pub8"

\* ensure_wg_keys_local(iface) on key file `key` and public key file `pub`;
\* n keys were generated before; genkey_ok and pubkey_ok tell whether the two
\* subprocesses (run with check=True) exit 0.
ensure_wg_keys_local(key, pub, n, genkey_ok, pubkey_ok) ==
    IF key # KeyAbsent /\ pub # KeyAbsent
    THEN [raised |-> "", key |-> key, pub |-> pub, n |-> n]
    ELSE IF ~genkey_ok
    THEN [raised |-> "CalledProcessError", key |-> key, pub |-> pub, n |-> n]
    ELSE IF ~pubkey_ok
    THEN [raised |-> "CalledProcessError", key |-> wg_genkey(n + 1), pub |-> pub, n |-> n + 1]
    ELSE [raised |-> "", key |-> wg_genkey(n + 1), pub |-> wg_pubkey(wg_genkey(n + 1)),
          n |-> n + 1]

-----------------------------------------------------------------------------
(* SpecKeys: ensure_wg_keys_local called again and again, on a fresh node  *)
(* or on one whose keys exist.                                             *)

InitKeyCalls ==
    /\ host = H_master /\ seed = SeedFull
    /\ iface = "wg1"
    /\ InitFiles(<<IFACE, LF>>)
    /\ \E fresh \in SUBSET Planes :
          /\ wgkey = [p \in Planes |-> IF p \in fresh THEN KeyAbsent ELSE OldKey(p)]
          /\ wgpub = [p \in Planes |-> IF p \in fresh THEN KeyAbsent ELSE OldPub(p)]
          /\ keygen = 3
    /\ kcall = [called |-> FALSE, n |-> 0]
    /\ prev = NoCall
    /\ last = NoCall
    /\ nrenders = 0
    /\ InitIdle

EnsureKeysCall ==
    /\ kcall.n < MaxKeyCalls
    /\ \E p \in Planes, genkey_ok \in BOOLEAN, pubkey_ok \in BOOLEAN :
          LET r == ensure_wg_keys_local(wgkey[p], wgpub[p], keygen, genkey_ok, pubkey_ok)
          IN /\ wgkey' = [wgkey EXCEPT ![p] = r.key]
             /\ wgpub' = [wgpub EXCEPT ![p] = r.pub]
             /\ keygen' = r.n
             /\ kcall' = [called |-> TRUE, n |-> kcall.n + 1, plane |-> p,
                          pre_key |-> wgkey[p], pre_pub |-> wgpub[p],
                          raised |-> r.raised]
    /\ UNCHANGED <<host, seed, iface, conf, conf0, backups, clock, prev, last, nrenders>>
    /\ UNCHANGED mvars
    /\ UNCHANGED xvars

NextKeys == EnsureKeysCall

SpecKeys == InitKeyCalls /\ [][NextKeys]_vars

\* C4: a call of ensure_wg_keys_local on a plane whose private key file exists
\* leaves that file's content unchanged (whether or not the public key file
\* exists too).
C4_KeyNeverRegenerated ==
    (kcall.called /\ kcall.pre_key # KeyAbsent) => wgkey[kcall.plane] = kcall.pre_key


-----------------------------------------------------------------------------
(* Spec: one run of main() *)

MainScenarios ==
    { <<H_master, SeedFull>>, <<H_master, SeedNoMaster>>, <<H_master, NoSeed>>,
      <<H_node1, SeedFull>>, <<H_node1, SeedNoMaster>>, <<H_node1, SeedNoCidr>>,
      <<H_stranger, SeedFull>> }

\* The node as the run finds it: a first boot (no account, no keys) or a later one
NodeStates ==
    { [user |-> FALSE, akey |-> NoKeyPair, fresh |-> TRUE],
      [user |-> TRUE, akey |-> [priv |-> TRUE, pub |-> "ssh-ed25519 APUB"], fresh |-> FALSE],
      [user |-> TRUE, akey |-> [priv |-> TRUE, pub |-> ""], fresh |-> FALSE] }

\* The controller artifacts: inventory and site.yml
Artifacts ==
    { <<InvFull, TRUE>>, <<InvLocalOnly, TRUE>>, <<NoInventory, TRUE>>, <<InvFull, FALSE>> }

\* The environment's settings: <<ANSIBLE_STRICT, SALT_REQUIRE_ALL>>
Configs == { <<FALSE, TRUE>>, <<TRUE, TRUE>>, <<FALSE, FALSE>> }

Init ==
    /\ \E sc \in MainScenarios : host = sc[1] /\ seed = sc[2]
    /\ iface = "wg1"
    /\ \E missing \in {{}, {"wg2"}} :
          /\ conf = [p \in Planes |-> IF p \in missing THEN NoFile ELSE <<IFACE, LF>>]
          /\ conf0 = conf
    /\ backups = [p \in Planes |-> {}]
    /\ clock = 0
    /\ \E ns \in NodeStates :
          /\ user_exists = ns.user
          /\ akey = ns.akey
          /\ wgkey = [p \in Planes |-> IF ns.fresh THEN KeyAbsent ELSE OldKey(p)]
          /\ wgpub = [p \in Planes |-> IF ns.fresh THEN KeyAbsent ELSE OldPub(p)]
          /\ keygen = IF ns.fresh THEN 0 ELSE 3
    /\ kcall = [called |-> FALSE, n |-> 0]
    /\ prev = NoCall /\ last = NoCall /\ nrenders = 0
    /\ pc = "start"
    /\ idx = 0
    /\ \E c \in Configs : strict = c[1] /\ require_all = c[2]
    /\ \E a \in Artifacts : inventory = a[1] /\ site_exists = a[2]
    /\ known_hosts = NoFile
    /\ probes = 0
    /\ ping = NoPing
    /\ scall = NoCall
    /\ gate = NoGate
    /\ trace = <<>>
    /\ failure = [phase |-> "", why |-> ""]
    /\ exit_code = -1
    /\ InitOther

\* An exception leaves main(): the interpreter prints it and exits 1
Abort(phase, why) ==
    /\ pc' = "aborted"
    /\ exit_code' = 1
    /\ failure' = [phase |-> phase, why |-> why]

Goto(next) ==
    /\ pc' = next
    /\ UNCHANGED <<exit_code, failure>>

\* A handler of the hub phase that logs and never raises again
HubRaise_swallow(phase, why) ==
    /\ pc' = "mine_update"
    /\ failure' = [phase |-> phase, why |-> why]
    /\ UNCHANGED exit_code

\* An exception inside the try block of the hub phase: logged, and raised
\* again only when ANSIBLE_STRICT
HubRaise(phase, why) ==
    IF strict
    THEN Abort(phase, why)
    ELSE /\ pc' = "mine_update"
         /\ failure' = [phase |-> phase, why |-> why]
         /\ UNCHANGED exit_code

\* time.sleep(POST_BOOT_PAUSE_SECONDS); seed = load_seed()
M_LoadSeed ==
    /\ pc = "start"
    /\ trace' = Append(trace, <<"load_seed">>)
    /\ IF load_seed(seed).raised # ""
       THEN Abort("load_seed", load_seed(seed).raised) /\ idx' = idx
       ELSE Goto("keys") /\ idx' = 1
    /\ UNCHANGED rvars
    /\ UNCHANGED <<strict, require_all, user_exists, akey, inventory, site_exists,
                   known_hosts, probes, ping, scall, gate>>
    /\ UNCHANGED xvars

\* for iface in PLANES: ensure_wg_keys_local(iface)
M_EnsureKeys ==
    /\ pc = "keys"
    /\ \E genkey_ok \in BOOLEAN, pubkey_ok \in BOOLEAN :
          LET p == PLANES[idx]
              r == ensure_wg_keys_local(wgkey[p], wgpub[p], keygen, genkey_ok, pubkey_ok)
          IN /\ wgkey' = [wgkey EXCEPT ![p] = r.key]
             /\ wgpub' = [wgpub EXCEPT ![p] = r.pub]
             /\ keygen' = r.n
             /\ kcall' = [called |-> TRUE, n |-> kcall.n + 1, plane |-> p,
                          pre_key |-> wgkey[p], pre_pub |-> wgpub[p], raised |-> r.raised]
             /\ trace' = Append(trace, <<"ensure_wg_keys_local", p>>)
             /\ IF r.raised # ""
                THEN Abort("ensure_wg_keys_local", r.raised) /\ idx' = idx
                ELSE IF idx < Len(PLANES)
                THEN Goto("keys") /\ idx' = idx + 1
                ELSE Goto("salt_wait") /\ idx' = 0
    /\ UNCHANGED <<host, seed, iface, conf, conf0, backups, clock, prev, last, nrenders>>
    /\ UNCHANGED <<strict, require_all, user_exists, akey, inventory, site_exists,
                   known_hosts, probes, ping, scall, gate>>
    /\ UNCHANGED xvars

\* How one `salt '*' test.ping` ends: like any salt invocation; an ok one
\* answers a JSON object in which `up` minions are true
PingOutcomes ==
    [kind : {"rc_nonzero", "no_json", "empty_out", "timeout"}, up : {0}]
        \cup [kind : {"ok"}, up : 0..MaxUp]

\* A salt_ping_wait that takes one responder for enough under every policy
ping_satisfied_any(all, up) == up >= 1

\* The test of salt_ping_wait on a parsed answer with `up` true responders
ping_satisfied(all, up) ==
    IF all THEN up >= SALT_EXPECTED_MINIONS ELSE up >= 1

\* One iteration of the loop of salt_ping_wait(): a probe, then return or sleep
M_SaltPing ==
    /\ pc = "salt_wait"
    /\ probes < SALT_PING_RETRIES
    /\ \E o \in PingOutcomes :
          LET r == run_rc(o.kind)
          IN /\ probes' = probes + 1
             /\ ping' = o
             /\ trace' = Append(trace, <<"test.ping">>)
             /\ IF r.raised # ""
                THEN Abort("salt_ping_wait", r.raised) /\ idx' = idx
                ELSE IF r.rc = 0 /\ o.kind = "ok" /\ ping_satisfied(require_all, o.up)
                THEN Goto("render") /\ idx' = 1
                ELSE Goto("salt_wait") /\ idx' = idx
    /\ UNCHANGED rvars
    /\ UNCHANGED <<strict, require_all, user_exists, akey, inventory, site_exists,
                   known_hosts, scall, gate>>
    /\ UNCHANGED xvars

\* The loop of salt_ping_wait() is over: raise RuntimeError
M_SaltPingExhausted ==
    /\ pc = "salt_wait"
    /\ probes >= SALT_PING_RETRIES
    /\ Abort("salt_ping_wait", "RuntimeError")
    /\ UNCHANGED rvars
    /\ UNCHANGED <<idx, strict, require_all, user_exists, akey, inventory, site_exists,
                   known_hosts, probes, ping, scall, gate, trace>>
    /\ UNCHANGED xvars

\* restart_plane(iface): run(["systemctl", "restart", unit], check=False);
\* unit_ok tells whether systemctl exits 0
restart_plane(unit_ok) == [raised |-> "", restarted |-> unit_ok]

\* A main() that restarts the unit after every render
should_restart_always(changed) == TRUE

\* `if changed:` in the plane loop of main()
should_restart(changed) == changed

\* One iteration of the plane loop of main(): render, and restart when changed
M_RenderPlane ==
    /\ pc = "render"
    /\ \E fetch \in (IF is_master(host) THEN HubFetch ELSE SpokeFetch) :
          LET p == PLANES[idx]
              r == render_plane_conf_from_seed(seed, p, host, conf[p], backups[p],
                                               wgpub[p], clock, fetch)
              restarts == r.raised = "" /\ should_restart(r.changed)
          IN \E unit_ok \in (IF restarts THEN BOOLEAN ELSE {TRUE}) :
             /\ conf' = [conf EXCEPT ![p] = r.conf]
             /\ backups' = [backups EXCEPT ![p] = r.backups]
             /\ prev' = prev
             /\ last' = [called |-> TRUE, plane |-> p, fetch |-> fetch,
                         raised |-> r.raised, changed |-> r.changed,
                         pre |-> conf[p], post |-> r.conf, text |-> r.text,
                         restart |-> IF ~restarts THEN "none"
                                     ELSE IF unit_ok THEN "ok" ELSE "failed"]
             /\ trace' = Append(trace, <<"render", p>>)
                            \o (IF restarts THEN << <<"restart", p>> >> ELSE <<>>)
             /\ IF r.raised # ""
                THEN Abort("render", r.raised) /\ idx' = idx
                ELSE IF restarts /\ restart_plane(unit_ok).raised # ""
                THEN Abort("restart_plane", restart_plane(unit_ok).raised) /\ idx' = idx
                ELSE IF idx < Len(PLANES)
                THEN Goto("render") /\ idx' = idx + 1
                ELSE Goto("settle") /\ idx' = 0
    /\ nrenders' = nrenders + 1
    /\ UNCHANGED <<host, seed, iface, conf0, clock, wgkey, wgpub, keygen, kcall>>
    /\ UNCHANGED <<strict, require_all, user_exists, akey, inventory, site_exists,
                   known_hosts, probes, ping, scall, gate>>
    /\ UNCHANGED xvars


\* log("wg settle"); time.sleep(8)
\* A main() that goes from the settle pause straight to the trust bootstrap
M_Settle_then_bootstrap ==
    /\ pc = "settle"
    /\ trace' = Append(trace, <<"settle">>)
    /\ Goto("ensure_user")
    /\ UNCHANGED rvars
    /\ UNCHANGED <<idx, strict, require_all, user_exists, akey, inventory, site_exists,
                   known_hosts, probes, ping, scall, gate>>
    /\ UNCHANGED xvars

\* time.sleep(8) after the plane loop
M_Settle ==
    /\ pc = "settle"
    /\ trace' = Append(trace, <<"settle">>)
    /\ Goto("known_hosts")
    /\ UNCHANGED rvars
    /\ UNCHANGED <<idx, strict, require_all, user_exists, akey, inventory, site_exists,
                   known_hosts, probes, ping, scall, gate>>
    /\ UNCHANGED xvars

Salts == {"s1", "s2"}

\* ensure_unit_known_hosts(), then the test `if is_master()`
M_KnownHosts ==
    /\ pc = "known_hosts"
    /\ \E all_answer \in BOOLEAN, salt \in Salts, script_rc \in {0, 1} :
          LET items == scan_items(inventory_targets(inventory))
              answers == IF all_answer THEN {items[i] : i \in 1..Len(items)} ELSE {}
              r == ensure_unit_known_hosts(known_hosts, user_exists, inventory,
                                           answers, salt, script_rc)
          IN /\ known_hosts' = r.kh
             /\ trace' = Append(trace, <<"ensure_unit_known_hosts">>)
             /\ IF r.raised # ""
                THEN Abort("ensure_unit_known_hosts", r.raised)
                ELSE IF is_master(host) THEN Goto("ensure_user") ELSE Goto("mine_update")
    /\ UNCHANGED rvars
    /\ UNCHANGED <<idx, strict, require_all, user_exists, akey, inventory, site_exists,
                   probes, ping, scall, gate>>
    /\ UNCHANGED xvars

\* pub = ensure_ansible_user_on_master()
M_EnsureUser ==
    /\ pc = "ensure_user"
    /\ \E useradd_ok \in BOOLEAN, keygen_ok \in BOOLEAN :
          LET r == ensure_ansible_user_on_master(user_exists, akey, useradd_ok, keygen_ok)
          IN /\ user_exists' = r.user
             /\ akey' = r.akey
             /\ trace' = Append(trace, <<"ensure_ansible_user_on_master">>)
             /\ IF r.raised # ""
                THEN HubRaise("ensure_ansible_user_on_master", r.raised)
                ELSE Goto("push_key")
    /\ UNCHANGED rvars
    /\ UNCHANGED <<idx, strict, require_all, inventory, site_exists,
                   known_hosts, probes, ping, scall, gate>>
    /\ UNCHANGED xvars

PushFetch ==
    {Fetch(salt_cmd(a, <<>>, PUSH_RETRIES)) : a \in AttemptSeqs(PUSH_RETRIES + 1)}

\* push_ansible_key_to_minions(pub); ensure_controller_artifact_perms()
M_PushKey ==
    /\ pc = "push_key"
    /\ \E r \in PushFetch :
          /\ trace' = Append(trace, <<"push_ansible_key_to_minions">>)
                         \o (IF r.raised = ""
                             THEN << <<"ensure_controller_artifact_perms">> >> ELSE <<>>)
          /\ IF r.raised # ""
             THEN HubRaise("push_ansible_key_to_minions", r.raised)
             ELSE Goto("reach")
    /\ UNCHANGED rvars
    /\ UNCHANGED <<idx, strict, require_all, user_exists, akey, inventory, site_exists,
                   known_hosts, probes, ping, scall, gate>>
    /\ UNCHANGED xvars

\* wait_for_ansible_reachability(), up to its loop: the targets, the ping of
\* every address (run_rc with timeout=2), deadline and remaining
G_Start ==
    /\ pc = "reach"
    /\ LET ips == gate_ips(inventory_targets(inventory))
       IN /\ trace' = Append(trace, <<"wait_for_ansible_reachability">>)
          /\ IF ips = <<>>
             THEN /\ gate' = [NoGate EXCEPT !.entered = TRUE]
                  /\ Goto("ansible")
             ELSE \E kick \in {"ok", "rc_nonzero", "timeout"} :
                     IF run_rc(kick).raised # ""
                     THEN /\ gate' = [NoGate EXCEPT !.entered = TRUE]
                          /\ HubRaise("wait_for_ansible_reachability", run_rc(kick).raised)
                     ELSE /\ gate' = [pending |-> ToSet(ips), ticks |-> 0,
                                      entered |-> TRUE, timed_out |-> FALSE]
                          /\ Goto("gate")
    /\ UNCHANGED rvars
    /\ UNCHANGED <<idx, strict, require_all, user_exists, akey, inventory, site_exists,
                   known_hosts, probes, ping, scall>>
    /\ UNCHANGED xvars

\* What the check of one address ends in: `ip route get` fails, or exceeds
\* its timeout (run_rc raises), or the route exists and wait_for_tcp(ip, 22)
\* connects or does not
\* wait_for_tcp(ip, 22, timeout_s=2, per_try_timeout_s=1.0), the clock counted
\* in half seconds
TCP_TIMEOUT == 4
TCP_PER_TRY == 2

\* How one socket.create_connection ends: connected, refused at once, or
\* nothing heard within per_try_timeout_s (both OSError)
ConnectOutcomes == {"ok", "refused", "timeout"}

RECURSIVE wait_for_tcp_loop(_, _, _, _)
\* `while time.time() < deadline`: a connect; on OSError time.sleep(0.5)
wait_for_tcp_loop(attempts, i, now, deadline) ==
    IF ~(now < deadline) \/ i > Len(attempts)
    THEN [ok |-> FALSE, tries |-> i - 1, now |-> now]
    ELSE IF attempts[i] = "ok"
    THEN [ok |-> TRUE, tries |-> i, now |-> now]
    ELSE wait_for_tcp_loop(attempts, i + 1,
                           now + (IF attempts[i] = "timeout" THEN TCP_PER_TRY ELSE 0) + 1,
                           deadline)

\* wait_for_tcp(host, port, timeout_s, per_try_timeout_s): attempts[i] is how
\* the i-th connect ends
wait_for_tcp(attempts, timeout_s) == wait_for_tcp_loop(attempts, 1, 0, timeout_s)

\* As many connects as a wait_for_tcp can make at most: one per sleep
TcpAttempts == [1..TCP_TIMEOUT -> ConnectOutcomes]

GateOutcomes ==
    {"no_route", "route_timeout"}
      \cup {IF wait_for_tcp(a, TCP_TIMEOUT).ok THEN "tcp_ok" ELSE "tcp_fail" : a \in TcpAttempts}

\* sorted(remaining): the addresses of the inventories, in string order
IpsSorted == <<"10.78.0.2", "10.78.0.3">>

sorted_ips(S) ==
    LET In(ip) == ip \in S
    IN SelectSeq(IpsSorted, In)

NoCheck == [raised |-> "", checked |-> {}, routed |-> {}, tried |-> {}, done |-> {}]

RECURSIVE check_ips_connect_anyway(_, _)
\* A loop that goes on to wait_for_tcp also when the route check has failed
check_ips_connect_anyway(ips, out) ==
    IF ips = <<>> THEN NoCheck
    ELSE LET ip == Head(ips)
             rest == check_ips_connect_anyway(Tail(ips), out)
         IN CASE out[ip] = "route_timeout" ->
                    [NoCheck EXCEPT !.raised = "TimeoutExpired", !.checked = {ip}]
              [] out[ip] \in {"no_route", "tcp_fail"} ->
                    [rest EXCEPT !.checked = @ \cup {ip},
                                 !.routed = @ \cup (IF out[ip] = "tcp_fail" THEN {ip} ELSE {}),
                                 !.tried = @ \cup {ip}]
              [] OTHER ->
                    [rest EXCEPT !.checked = @ \cup {ip}, !.routed = @ \cup {ip},
                                 !.tried = @ \cup {ip}, !.done = @ \cup {ip}]

RECURSIVE check_ips(_, _)
\* `for ip in sorted(remaining)`: the route check, `continue` when it fails,
\* else wait_for_tcp(ip, 22) and done.add(ip) when it connects. A route check
\* that exceeds its timeout raises and ends the loop.
check_ips(ips, out) ==
    IF ips = <<>> THEN NoCheck
    ELSE LET ip == Head(ips)
             rest == check_ips(Tail(ips), out)
         IN CASE out[ip] = "route_timeout" ->
                    [NoCheck EXCEPT !.raised = "TimeoutExpired", !.checked = {ip}]
              [] out[ip] = "no_route" ->
                    [rest EXCEPT !.checked = @ \cup {ip}]
              [] out[ip] = "tcp_fail" ->
                    [rest EXCEPT !.checked = @ \cup {ip}, !.routed = @ \cup {ip},
                                 !.tried = @ \cup {ip}]
              [] OTHER ->
                    [rest EXCEPT !.checked = @ \cup {ip}, !.routed = @ \cup {ip},
                                 !.tried = @ \cup {ip}, !.done = @ \cup {ip}]

\* A time.sleep that does not move the clock
after_sleep_frozen(t) == t

\* time.sleep(1.5) at the end of an iteration: the clock, counted in sleeps,
\* has moved on
after_sleep(t) == t + 1

\* One iteration of the gate's loop on the gate record g
gate_tick(g, out) ==
    LET c == check_ips(sorted_ips(g.pending), out)
    IN [raised |-> c.raised,
        checks |-> c,
        gate |-> IF c.raised # "" THEN g
                 ELSE [g EXCEPT !.pending = g.pending \ c.done,
                                !.ticks = after_sleep(g.ticks)]]

\* What an iteration with the result r does to the run
GateIteration(r) ==
    /\ gate' = r.gate
    /\ IF r.raised # ""
       THEN HubRaise("wait_for_ansible_reachability", r.raised)
       ELSE IF r.gate.pending = {} THEN Goto("ansible") ELSE Goto("gate")
    /\ UNCHANGED rvars
    /\ UNCHANGED <<idx, strict, require_all, user_exists, akey, inventory, site_exists,
                   known_hosts, probes, ping, scall, trace>>

\* One iteration of the gate's loop, the deadline not yet passed
G_Tick ==
    /\ pc = "gate"
    /\ gate.pending # {}
    /\ gate.ticks < MaxGateTicks
    /\ \E out \in [gate.pending -> GateOutcomes] : GateIteration(gate_tick(gate, out))
    /\ UNCHANGED xvars

\* The deadline has passed with addresses remaining: the summary is logged
\* and the function returns
G_Timeout ==
    /\ pc = "gate"
    /\ gate.pending # {}
    /\ gate' = [gate EXCEPT !.timed_out = TRUE]
    /\ Goto("ansible")
    /\ UNCHANGED rvars
    /\ UNCHANGED <<idx, strict, require_all, user_exists, akey, inventory, site_exists,
                   known_hosts, probes, ping, scall, trace>>
    /\ UNCHANGED xvars

\* The exit status of run_stream: the process's, or 124 on its timeout
StreamRcs == {0, 2, 124}

\* ansible_ping_and_world()
M_Ansible ==
    /\ pc = "ansible"
    /\ \E rc \in StreamRcs, rc2 \in StreamRcs :
          /\ trace' = Append(trace, <<"ansible_ping_and_world">>)
                \o (IF inventory # NoInventory /\ site_exists
                    THEN << <<"ansible ping">> >> ELSE <<>>)
                \o (IF inventory # NoInventory /\ site_exists /\ rc = 0
                    THEN << <<"ansible-playbook">> >> ELSE <<>>)
          /\ IF inventory = NoInventory
             THEN HubRaise("ansible_ping_and_world", "missing ansible inventory")
             ELSE IF ~site_exists
             THEN HubRaise("ansible_ping_and_world", "missing ansible site")
             ELSE IF rc # 0
             THEN HubRaise("ansible_ping_and_world", "ansible ping failed")
             ELSE IF rc2 # 0
             THEN HubRaise("ansible_ping_and_world", "ansible playbook failed")
             ELSE Goto("mine_update")
    /\ UNCHANGED rvars
    /\ UNCHANGED <<idx, strict, require_all, user_exists, akey, inventory, site_exists,
                   known_hosts, probes, ping, scall, gate>>
    /\ UNCHANGED xvars

\* run_rc(salt-call mine.update); log("[INFO] DONE"); main() returns
M_MineUpdate ==
    /\ pc = "mine_update"
    /\ trace' = trace \o << <<"mine.update">>, <<"DONE">> >>
    /\ pc' = "done"
    /\ exit_code' = 0
    /\ UNCHANGED failure
    /\ UNCHANGED rvars
    /\ UNCHANGED <<idx, strict, require_all, user_exists, akey, inventory, site_exists,
                   known_hosts, probes, ping, scall, gate>>
    /\ UNCHANGED xvars

Next ==
    \/ M_LoadSeed \/ M_EnsureKeys \/ M_SaltPing \/ M_SaltPingExhausted \/ M_RenderPlane
    \/ M_Settle \/ M_KnownHosts \/ M_EnsureUser \/ M_PushKey
    \/ G_Start \/ G_Tick \/ G_Timeout \/ M_Ansible \/ M_MineUpdate

Spec == Init /\ [][Next]_vars


-----------------------------------------------------------------------------
(* Claims about one run of main() (Spec) *)

\* The run has called the step of this name
Called(step) == \E i \in 1..Len(trace) : trace[i][1] = step

\* What main() runs after salt_ping_wait
DownstreamSteps ==
    {"render", "restart", "settle", "ensure_unit_known_hosts",
     "ensure_ansible_user_on_master", "push_ansible_key_to_minions",
     "ensure_controller_artifact_perms", "wait_for_ansible_reachability",
     "ansible_ping_and_world", "ansible ping", "ansible-playbook"}

\* What main() runs inside `if is_master(): try: ...`
HubSteps ==
    {"ensure_ansible_user_on_master", "push_ansible_key_to_minions",
     "ensure_controller_artifact_perms", "wait_for_ansible_reachability",
     "ansible_ping_and_world", "ansible ping", "ansible-playbook"}

HubPhases ==
    {"ensure_ansible_user_on_master", "push_ansible_key_to_minions",
     "wait_for_ansible_reachability", "ansible_ping_and_world"}

\* The hub phase a step belongs to
PhaseOf(step) ==
    IF step \in {"ansible ping", "ansible-playbook"} THEN "ansible_ping_and_world" ELSE step

IsHubEntry(e) == e[1] \in HubSteps

LastHubPhase ==
    LET h == SelectSeq(trace, IsHubEntry)
    IN IF h = <<>> THEN "" ELSE PhaseOf(h[Len(h)][1])

\* The last probe meets the policy, stated as the contract states it
LastProbeSatisfies ==
    /\ ping.kind = "ok"
    /\ IF require_all THEN ping.up >= SALT_EXPECTED_MINIONS ELSE ping.up >= 1

SaltWaitReturned ==
    /\ pc \notin {"idle", "start", "keys", "salt_wait"}
    /\ ~(pc = "aborted"
         /\ failure.phase \in {"load_seed", "ensure_wg_keys_local", "salt_ping_wait"})

SaltWaitRaised == pc = "aborted" /\ failure.phase = "salt_ping_wait"

NothingDownstream ==
    /\ conf = conf0
    /\ backups = [p \in Planes |-> {}]
    /\ known_hosts = NoFile
    /\ \A step \in DownstreamSteps : ~Called(step)

\* C5: salt_ping_wait issues at most SALT_PING_RETRIES probes; it returns only
\* on a probe that exits 0 with a parsed answer whose count of true responders
\* is >= SALT_EXPECTED_MINIONS (require-all) or >= 1 (otherwise); when it
\* raises, no probe has met the policy, the run ends non-zero, and no plane
\* config was rendered or written, no unit restarted, and no known-hosts,
\* trust-bootstrap, reachability or playbook step was run.
C5_FleetReadinessGate ==
    /\ probes <= SALT_PING_RETRIES
    /\ SaltWaitReturned => LastProbeSatisfies
    /\ ~SaltWaitReturned => NothingDownstream
    /\ SaltWaitRaised =>
          /\ ~LastProbeSatisfies
          /\ exit_code = 1
          /\ failure.why = "RuntimeError" => probes = SALT_PING_RETRIES

\* C5, its case: every probe was answered, by one responder where all are
\* required, and salt_ping_wait has raised after the last of them
C5_Witness ==
    /\ SaltWaitRaised
    /\ failure.why = "RuntimeError"
    /\ probes = SALT_PING_RETRIES
    /\ require_all /\ ping.kind = "ok" /\ ping.up = 1

\* C7: on the hub a failure of trust bootstrap, key distribution, the
\* reachability gate or the playbook runner ends the hub phase at once (no
\* later hub step runs); with strict mode off the run goes on to the fact
\* refresh, logs DONE and exits 0; with strict mode on it exits non-zero
\* without them.  On a spoke no hub step is run.
C7_HubPhaseFailure ==
    /\ failure.phase \in HubPhases =>
          /\ is_master(host)
          /\ LastHubPhase = failure.phase
          /\ IF strict
             THEN pc = "aborted" /\ exit_code = 1
                  /\ ~Called("mine.update") /\ ~Called("DONE")
             ELSE /\ pc \in {"mine_update", "done"}
                  /\ pc = "mine_update" => exit_code = -1 /\ ~Called("DONE")
                  /\ pc = "done" =>
                        /\ exit_code = 0
                        /\ Called("mine.update")
                        /\ trace[Len(trace)] = <<"DONE">>
    /\ ~is_master(host) => \A step \in HubSteps : ~Called(step)

\* C7, its case: strict mode off, the playbook has failed on the hub, and the
\* run has ended with DONE and exit status 0
C7_Witness ==
    /\ is_master(host) /\ ~strict
    /\ failure.phase = "ansible_ping_and_world"
    /\ failure.why = "ansible playbook failed"
    /\ pc = "done" /\ exit_code = 0

\* C8: whenever the seed document, a base plane config, the local identity in
\* the seed, the hub entry or the inventory/site artifacts are found missing,
\* the run aborts with a non-zero status there, in strict and non-strict mode
\* alike, and runs no later phase.
C8_FatalPreconditionsAbort ==
    (\/ failure.phase = "load_seed"
     \/ failure.why \in {"missing base config", "node not found in seed",
                         "seed has no master entry", "missing ansible inventory",
                         "missing ansible site"})
        => /\ pc = "aborted"
           /\ exit_code = 1
           /\ ~Called("mine.update") /\ ~Called("DONE")

\* C9: ensure_unit_known_hosts never raises: whatever step of it fails, main()
\* continues with the phases that follow it.
C9_KnownHostsNeverFatal ==
    Called("ensure_unit_known_hosts") =>
        /\ failure.phase # "ensure_unit_known_hosts"
        /\ pc = "aborted" => failure.phase \in HubPhases

\* C10: wait_for_ansible_reachability never raises: it returns when no address
\* is pending or when its deadline has passed, and main() then calls the
\* playbook runner.
C10_GateNeverRaises ==
    gate.entered =>
        /\ failure.phase # "wait_for_ansible_reachability"
        /\ pc \notin {"reach", "gate"} =>
              /\ gate.pending = {} \/ gate.timed_out
              /\ pc \in {"mine_update", "done", "aborted"} => Called("ansible_ping_and_world")

-----------------------------------------------------------------------------
(* SpecSalt: salt_cmd called with any retry bound the program uses, any    *)
(* way each salt invocation can end, and any answer of the mesh.           *)

InitSalt ==
    /\ host = H_master /\ seed = SeedFull
    /\ iface = "wg1"
    /\ InitFiles(<<IFACE, LF>>)
    /\ InitKeys
    /\ prev = NoCall
    /\ last = NoCall
    /\ nrenders = 0
    /\ InitIdle

\* One call of salt_cmd(target, shell_cmd, retries)
SaltCmdCall ==
    /\ \E retries \in {PUSH_RETRIES, SALT_CMD_RETRIES} :
          \E a \in AttemptSeqs(retries + 1), reply \in HubReplies \cup SpokeReplies :
             scall' = [called |-> TRUE, retries |-> retries, attempts |-> a,
                       reply |-> reply, result |-> salt_cmd(a, reply, retries)]
    /\ UNCHANGED rvars
    /\ UNCHANGED <<pc, idx, strict, require_all, user_exists, akey, inventory, site_exists,
                   known_hosts, probes, ping, gate, trace, failure, exit_code>>
    /\ UNCHANGED xvars

NextSalt == SaltCmdCall

SpecSalt == InitSalt /\ [][NextSalt]_vars

IsOk(outcome) == outcome = "ok"

\* C6: salt_cmd never raises; it makes at most retries+1 attempts, returns the
\* parsed map of the first attempt that exits 0 with a parsable JSON object,
\* and otherwise returns an empty map after logging a warning.
C6_SaltCmdNeverAborts ==
    scall.called =>
        LET r == scall.result
            k == FirstIndex(scall.attempts, IsOk)
        IN /\ r.raised = ""
           /\ r.tries <= scall.retries + 1
           /\ IF k # 0
              THEN r.tries = k /\ r.parsed /\ r.data = scall.reply
              ELSE r.data = <<>> /\ r.warned

-----------------------------------------------------------------------------
(* SpecStream: ansible_ping_and_world's two run_stream calls, each reading *)
(* the output of a subprocess that prints lines again and again ("chatty") *)
(* or prints nothing ("silent"), and that exits when it likes or never.    *)

RestState ==
    /\ host = H_master /\ seed = SeedFull
    /\ iface = "wg1"
    /\ InitFiles(<<IFACE, LF>>)
    /\ InitKeys
    /\ prev = NoCall
    /\ last = NoCall
    /\ nrenders = 0
    /\ pc = "idle" /\ idx = 0 /\ strict = FALSE /\ require_all = TRUE
    /\ user_exists = TRUE /\ akey = NoKeyPair /\ inventory = InvFull
    /\ site_exists = TRUE /\ known_hosts = NoFile /\ probes = 0 /\ ping = NoPing
    /\ scall = NoCall /\ gate = NoGate /\ trace = <<>>
    /\ failure = [phase |-> "", why |-> ""] /\ exit_code = -1

\* p = subprocess.Popen(...); start = time.time()
Popen(call, talk) ==
    [called |-> TRUE, call |-> call, talk |-> talk, child |-> "running",
     elapsed |-> 0, lines |-> 0, pc |-> "read", ret |-> -1]

InitStream ==
    /\ RestState
    /\ hist = <<>> /\ wr = NoCall /\ khcall = NoCall /\ authk = NoCall /\ jx = NoCall /\ gt = NoCall /\ kw = NoCall /\ rf = NoCall
    /\ \E talk \in {"chatty", "silent"} : stream = Popen(1, talk)

\* `for line in p.stdout` yields a line: it is written out, and the timeout
\* is tested
S_Line ==
    /\ stream.pc = "read" /\ stream.child = "running" /\ stream.talk = "chatty"
    /\ stream' = IF stream.elapsed > StreamTimeout
                 THEN [stream EXCEPT !.child = "killed", !.pc = "returned", !.ret = 124]
                 ELSE [stream EXCEPT !.lines = IF @ < MaxLines THEN @ + 1 ELSE @]
    /\ UNCHANGED <<rvars, mvars, hist, wr, khcall, authk, jx, gt, kw, rf>>

\* The subprocess exits: the loop ends at end of file, return p.wait()
S_Eof ==
    /\ stream.pc = "read" /\ stream.child = "running"
    /\ \E rc \in {0, 2} :
          stream' = [stream EXCEPT !.child = "exited", !.pc = "returned", !.ret = rc]
    /\ UNCHANGED <<rvars, mvars, hist, wr, khcall, authk, jx, gt, kw, rf>>

\* A second passes while run_stream waits for the next line
S_Tick ==
    /\ stream.pc = "read" /\ stream.elapsed < MaxElapsed
    /\ stream' = [stream EXCEPT !.elapsed = @ + 1]
    /\ UNCHANGED <<rvars, mvars, hist, wr, khcall, authk, jx, gt, kw, rf>>

\* ansible_ping_and_world after a run_stream call: raise on rc != 0, else the
\* playbook after the ping, and return after the playbook
S_Caller ==
    /\ stream.pc = "returned"
    /\ IF stream.ret # 0
       THEN stream' = [stream EXCEPT !.pc = "raised"]
       ELSE IF stream.call = 1
       THEN \E talk \in {"chatty", "silent"} : stream' = Popen(2, talk)
       ELSE stream' = [stream EXCEPT !.pc = "done"]
    /\ UNCHANGED <<rvars, mvars, hist, wr, khcall, authk, jx, gt, kw, rf>>

NextStream == S_Line \/ S_Eof \/ S_Tick \/ S_Caller

\* Python goes on whenever it can: a line that is there is read, time passes,
\* the caller continues.  Nothing makes the subprocess exit.
SpecStream ==
    InitStream /\ [][NextStream]_vars
        /\ WF_vars(S_Line) /\ WF_vars(S_Tick) /\ WF_vars(S_Caller)

\* C11: whenever the subprocess of a run_stream call is still running once the
\* timeout has elapsed, the call eventually ends (by killing it and returning
\* 124), whether the subprocess prints lines or stays silent.
C11_StreamTimeout ==
    (stream.pc = "read" /\ stream.child = "running" /\ stream.elapsed > StreamTimeout)
        ~> (stream.pc # "read")

-----------------------------------------------------------------------------
(* SpecBackups: write_if_changed called again and again on the config of   *)
(* one plane with any desired text, seconds passing or not between calls.  *)

T_interface == <<IFACE, LF>>
T_address == <<IFACE, LF, ADDR, LF>>
T_blank == <<IFACE, LF, LF>>
DesiredTexts == {T_interface, T_address, T_blank}

InitBackups ==
    /\ RestState
    /\ stream = NoCall /\ khcall = NoCall /\ authk = NoCall /\ jx = NoCall /\ gt = NoCall /\ kw = NoCall /\ rf = NoCall
    /\ hist = <<>>
    /\ wr = [called |-> FALSE, n |-> 0]

\* One call of write_if_changed(conf_path, desired_text)
WriteCall ==
    /\ wr.n < MaxWrites
    /\ \E d \in DesiredTexts :
          LET r == write_if_changed(conf[iface], d, backups[iface], clock)
          IN /\ conf' = [conf EXCEPT ![iface] = r.conf]
             /\ backups' = [backups EXCEPT ![iface] = r.backups]
             /\ hist' = IF r.changed /\ conf[iface] # NoFile /\ BACKUP_KEEP > 0
                        THEN Append(hist, [ts |-> clock, text |-> conf[iface]])
                        ELSE hist
             /\ wr' = [called |-> TRUE, n |-> wr.n + 1, changed |-> r.changed,
                       pre |-> conf[iface], desired |-> d]
    /\ UNCHANGED <<host, seed, iface, conf0, clock, wgkey, wgpub, keygen, prev, last,
                   nrenders, kcall>>
    /\ UNCHANGED <<mvars, stream, khcall, authk, jx, gt, kw, rf>>

\* A second passes (time.strftime("%Y%m%d%H%M%S") changes)
B_Tick ==
    /\ clock < MaxBackupClock
    /\ clock' = clock + 1
    /\ UNCHANGED <<host, seed, iface, conf, conf0, backups, wgkey, wgpub, keygen,
                   prev, last, nrenders, kcall>>
    /\ UNCHANGED <<mvars, xvars>>

NextBackups == WriteCall \/ B_Tick

SpecBackups == InitBackups /\ [][NextBackups]_vars

\* The writes that replaced the file fell in different seconds
DistinctSeconds ==
    \A i \in 1..Len(hist) : \A j \in 1..Len(hist) : i # j => hist[i].ts # hist[j].ts

\* The versions the last n changing renders replaced
LastVersions(n) == {hist[i] : i \in (Len(hist) - Min({n, Len(hist)}) + 1)..Len(hist)}

\* C12 (as stated): after any changing writes of a plane's config the backups are the
\* BACKUP_KEEP most recent versions replaced (all of them while there are
\* fewer), and there are never more than BACKUP_KEEP.
C12_BackupRetention_Any ==
    /\ Cardinality(backups[iface]) <= BACKUP_KEEP
    /\ backups[iface] = LastVersions(BACKUP_KEEP)

\* C12 (amended): the same, for changing writes that fell in different
\* seconds of the clock; never more than BACKUP_KEEP backups in any case.
C12_BackupRetention ==
    /\ Cardinality(backups[iface]) <= BACKUP_KEEP
    /\ DistinctSeconds => backups[iface] = LastVersions(BACKUP_KEEP)

\* C12, its case: BACKUP_KEEP + 1 changing writes in different seconds, the
\* oldest version deleted
C12_Witness ==
    /\ Len(hist) = BACKUP_KEEP + 1
    /\ DistinctSeconds
    /\ Cardinality(backups[iface]) = BACKUP_KEEP
    /\ hist[1] \notin backups[iface]

-----------------------------------------------------------------------------
(* SpecWrite: write_if_changed taken one system call at a time, the        *)
(* process being killed at any point and the function called again by the  *)
(* next run.  fs holds the two paths the function writes: the config and   *)
(* its sibling <conf>.new.                                                 *)

\* A write_text on the config itself
write_text_inplace(fs, text) == [fs EXCEPT !.conf = text]

\* tmp.write_text(text): the file at <conf>.new gets the text
write_text_new(fs, text) == [fs EXCEPT !.tmp = text]

\* os.replace(tmp, conf_path)
os_replace(fs) == IF fs.tmp = NoFile THEN fs ELSE [conf |-> fs.tmp, tmp |-> NoFile]

\* What a write that has begun and not ended has put into the file
Partial(text) == IF Len(text) > 1 THEN SubSeq(text, 1, Len(text) - 1) ELSE <<>>

InitWrite ==
    /\ RestState
    /\ stream = NoCall /\ khcall = NoCall /\ authk = NoCall /\ jx = NoCall /\ gt = NoCall /\ kw = NoCall /\ rf = NoCall
    /\ hist = <<>>
    /\ wr = [called |-> FALSE, n |-> 0, pc |-> "idle", old |-> <<>>, desired |-> <<>>,
             tmp |-> NoFile]

\* current = conf_path.read_text(); if current == desired_text: return False
W_Begin ==
    /\ wr.pc \in {"idle", "returned", "killed"}
    /\ wr.n < MaxRuns
    /\ \E d \in DesiredTexts :
          wr' = [wr EXCEPT !.called = TRUE, !.n = @ + 1, !.old = conf[iface],
                           !.desired = d,
                           !.pc = IF conf[iface] = d THEN "returned" ELSE "backup"]
    /\ UNCHANGED <<rvars, mvars, hist, stream, khcall, authk, jx, gt, kw, rf>>

\* prune_backups(conf_path); shutil.copy2(conf_path, backup_path)
W_Backup ==
    /\ wr.pc = "backup"
    /\ backups' = [backups EXCEPT ![iface] =
                      write_if_changed(conf[iface], wr.desired, backups[iface], clock).backups]
    /\ wr' = [wr EXCEPT !.pc = "open"]
    /\ UNCHANGED <<host, seed, iface, conf, conf0, clock, wgkey, wgpub, keygen, prev, last,
                   nrenders, kcall>>
    /\ UNCHANGED <<mvars, hist, stream, khcall, authk, jx, gt, kw, rf>>

\* tmp.write_text(desired_text): open() truncates the file, write() fills it
W_Write ==
    /\ wr.pc \in {"open", "write", "flush"}
    /\ LET text == CASE wr.pc = "open" -> <<>>
                     [] wr.pc = "write" -> Partial(wr.desired)
                     [] OTHER -> wr.desired
           fs == write_text_new([conf |-> conf[iface], tmp |-> wr.tmp], text)
       IN /\ conf' = [conf EXCEPT ![iface] = fs.conf]
          /\ wr' = [wr EXCEPT !.tmp = fs.tmp,
                              !.pc = CASE wr.pc = "open" -> "write"
                                       [] wr.pc = "write" -> "flush"
                                       [] OTHER -> "replace"]
    /\ UNCHANGED <<host, seed, iface, conf0, backups, clock, wgkey, wgpub, keygen, prev,
                   last, nrenders, kcall>>
    /\ UNCHANGED <<mvars, hist, stream, khcall, authk, jx, gt, kw, rf>>

\* os.replace(tmp, conf_path); return True
W_Replace ==
    /\ wr.pc = "replace"
    /\ LET fs == os_replace([conf |-> conf[iface], tmp |-> wr.tmp])
       IN /\ conf' = [conf EXCEPT ![iface] = fs.conf]
          /\ wr' = [wr EXCEPT !.tmp = fs.tmp, !.pc = "returned"]
    /\ UNCHANGED <<host, seed, iface, conf0, backups, clock, wgkey, wgpub, keygen, prev,
                   last, nrenders, kcall>>
    /\ UNCHANGED <<mvars, hist, stream, khcall, authk, jx, gt, kw, rf>>

\* The process is killed inside write_if_changed
W_Kill ==
    /\ wr.pc \in {"backup", "open", "write", "flush", "replace"}
    /\ wr' = [wr EXCEPT !.pc = "killed"]
    /\ UNCHANGED <<rvars, mvars, hist, stream, khcall, authk, jx, gt, kw, rf>>

NextWrite == W_Begin \/ W_Backup \/ W_Write \/ W_Replace \/ W_Kill

SpecWrite == InitWrite /\ [][NextWrite]_vars

\* What the next run's render of the plane answers on the file as it is
NextRenderRaises ==
    {render_plane_conf_from_seed(seed, iface, host, conf[iface], backups[iface],
                                 wgpub[iface], clock, f).raised :
        f \in {g \in HubFetch : g.raised = ""}}

\* C13: whenever write_if_changed is killed, and at every point in it, the
\* config file holds the complete previous content or the complete new one,
\* never a partial or empty file; and after a kill the next run's render of
\* the plane succeeds from it.
C13_AtomicReplace ==
    wr.called =>
        /\ conf[iface] \in {wr.old, wr.desired}
        /\ wr.pc = "killed" => NextRenderRaises = {""}

\* C13, its case: the process was killed with <conf>.new half written
C13_Witness ==
    /\ wr.pc = "killed"
    /\ wr.n = 1
    /\ wr.tmp = Partial(wr.desired) /\ wr.tmp # wr.desired
    /\ conf[iface] = wr.old /\ wr.old # wr.desired

-----------------------------------------------------------------------------
(* More claims about one run of main() (Spec) *)

Rendered(p) == \E i \in 1..Len(trace) : trace[i] = <<"render", p>>

Restarts(p) == {i \in 1..Len(trace) : trace[i] = <<"restart", p>>}

\* C16: in a run the unit of a plane is restarted (once) if and only if the
\* render of that plane in this run has changed the file; a render that finds
\* the file as desired writes nothing, makes no backup and restarts nothing;
\* and a restart that fails does not abort the run.
C16_RestartOnlyOnChange ==
    /\ \A p \in Planes :
          /\ Cardinality(Restarts(p)) <= 1
          /\ Restarts(p) # {} <=> (Rendered(p) /\ conf[p] # conf0[p])
          /\ \A i \in Restarts(p) : i > 1 /\ trace[i - 1] = <<"render", p>>
          /\ conf[p] = conf0[p] => backups[p] = {}
    /\ last.called =>
          /\ Restarts(last.plane) # {} <=> (last.raised = "" /\ last.changed)
          /\ (last.raised = "" /\ ~last.changed) =>
                last.post = last.pre /\ backups[last.plane] = {}
    /\ failure.phase # "restart_plane"

\* C16, its case: the restart of wg1 has failed, wg2 was found as desired and
\* not restarted, and the run has gone on to its end
C16_Witness ==
    /\ pc = "done"
    /\ Restarts("wg1") # {} /\ Restarts("wg2") = {} /\ Rendered("wg2")
    /\ last.restart = "failed"

PlaneNo(p) == CHOOSE i \in 1..Len(PLANES) : PLANES[i] = p

\* The place of each step in the order the claim gives; the steps of a
\* plane follow those of the plane before it
StepRank ==
    [load_seed |-> 1, ensure_wg_keys_local |-> 1, render |-> 4, restart |-> 5,
     settle |-> 12, ensure_unit_known_hosts |-> 13,
     ensure_ansible_user_on_master |-> 14, push_ansible_key_to_minions |-> 15,
     ensure_controller_artifact_perms |-> 16, wait_for_ansible_reachability |-> 17,
     ansible_ping_and_world |-> 18, DONE |-> 22]
      @@ ("test.ping" :> 5) @@ ("ansible ping" :> 19)
      @@ ("ansible-playbook" :> 20) @@ ("mine.update" :> 21)

PhaseRank(e) ==
    IF e[1] \notin DOMAIN StepRank THEN 0
    ELSE IF e[1] = "ensure_wg_keys_local" THEN StepRank[e[1]] + PlaneNo(e[2])
    ELSE IF e[1] \in {"render", "restart"} THEN StepRank[e[1]] + 2 * PlaneNo(e[2])
    ELSE StepRank[e[1]]

\* The steps that may come next after the step of rank r: the next one in
\* the order, where a restart (7, 9, 11) may be left out, the readiness probe
\* (5) may be repeated, and the hub's steps (14..20) may be cut short by an
\* exception that main() catches, which leads to the fact refresh (21)
Follows ==
    [r \in 1..22 |->
        CASE r = 5 -> {5, 6}
          [] r \in {6, 8, 10} -> {r + 1, r + 2}
          [] r \in {13, 14, 15, 17, 18, 19} -> {r + 1, 21}
          [] r = 22 -> {}
          [] OTHER -> {r + 1}]

RanksUpTo(i) == {PhaseRank(trace[j]) : j \in 1..i}

C19_WitnessSpoke ==
    /\ pc = "done" /\ ~is_master(host)
    /\ RanksUpTo(Len(trace)) \cap (13..22) = {13, 21, 22}

-----------------------------------------------------------------------------
(* The known-hosts store over several runs (SpecKnownHosts): every run calls *)
(* ensure_unit_known_hosts() once, on the inventory of the day, with the     *)
(* hosts that answer the scan that day.                                       *)

ScanNames == {"node1", "localhost", "10.78.0.2"}

InitKnownHosts ==
    /\ RestState
    /\ hist = <<>> /\ wr = NoCall /\ stream = NoCall /\ authk = NoCall /\ jx = NoCall /\ gt = NoCall /\ kw = NoCall /\ rf = NoCall
    /\ khcall = [called |-> FALSE, n |-> 0]

\* One run's ensure_unit_known_hosts()
KH_Seed ==
    /\ khcall.n < MaxSeedings
    /\ \E inv \in Inventories, answers \in SUBSET ScanNames, salt \in Salts,
          script_rc \in {0, 1} :
          LET r == ensure_unit_known_hosts(known_hosts, user_exists, inv,
                                           answers, salt, script_rc)
              targets == inventory_targets(inv)
              items == dedupe(scan_items(targets), {})
          IN /\ known_hosts' = r.kh
             /\ khcall' = [called |-> TRUE, n |-> khcall.n + 1, pre |-> known_hosts,
                           merged |-> targets # <<>> /\ script_rc = 0,
                           scanned |-> scan_lines(items, answers, salt)]
    /\ UNCHANGED rvars
    /\ UNCHANGED <<pc, idx, strict, require_all, user_exists, akey, inventory,
                   site_exists, probes, ping, scall, gate, trace, failure, exit_code>>
    /\ UNCHANGED <<hist, stream, wr, authk, jx, gt, kw, rf>>

NextKnownHosts == KH_Seed

SpecKnownHosts == InitKnownHosts /\ [][NextKnownHosts]_vars

FileLines(f) == IF f = NoFile THEN {} ELSE ToSet(f)

NoTwoIdentical(f) ==
    f = NoFile \/ \A i, j \in 1..Len(f) : f[i] = f[j] => i = j

\* C17: after any number of seeding runs over any inventories, the known-hosts
\* file holds no two identical lines, and every line that was in the file
\* before a seeding run is still in it after that run.
C17_KnownHostsMerge ==
    /\ NoTwoIdentical(known_hosts)
    /\ khcall.called =>
          /\ FileLines(khcall.pre) \subseteq FileLines(known_hosts)
          /\ khcall.merged => ToSet(khcall.scanned) \subseteq FileLines(known_hosts)

\* C17, its case: a second or later seeding whose scan has returned a line
\* that the file held already and a line that it did not hold
C17_Witness ==
    /\ khcall.called /\ khcall.n >= 2 /\ khcall.merged
    /\ ToSet(khcall.scanned) \cap FileLines(khcall.pre) # {}
    /\ ToSet(khcall.scanned) \ FileLines(khcall.pre) # {}

-----------------------------------------------------------------------------
(* The provisioning fragment of push_ansible_key_to_minions on one fleet     *)
(* node (SpecPush): the node runs it at every boot of the hub, and once more *)
(* when salt_cmd retries. `authk` holds the node's authorized_keys file.      *)

PUBKEY == <<"ssh-ed25519 KEY ansible">>
OTHERKEY == <<"ssh-rsa OTHER admin">>

\* grep -qxF key file: some line of the file is exactly the key
grep_qxF(key, f) == \E i \in 1..Len(splitlines(f)) : splitlines(f)[i] = <<key>>

\* echo key >> file
echo_append(key, f) == f \o <<key, LF>>

\* touch file
touch(f) == IF f = NoFile THEN <<>> ELSE f

\* The fragment under `set -e`: `account_ok` tells whether the account exists
\* or useradd and install -d succeed; otherwise the shell exits before touch
provision_script(f, key, account_ok) ==
    IF ~account_ok THEN f
    ELSE IF grep_qxF(key, touch(f)) THEN touch(f)
    ELSE echo_append(key, touch(f))

RECURSIVE TextsUpTo(_)
TextsUpTo(n) ==
    IF n = 0 THEN {<<>>}
    ELSE LET shorter == TextsUpTo(n - 1)
         IN shorter \cup {Append(t, a) : t \in {u \in shorter : Len(u) = n - 1},
                                         a \in {PUBKEY, OTHERKEY, LF}}

KeyLines(f) ==
    IF f = NoFile THEN {}
    ELSE {i \in 1..Len(splitlines(f)) : splitlines(f)[i] = <<PUBKEY>>}

\* The files a node may hold before the first push: none, or any text in
\* which the key is given at most once
FirstFiles == {NoFile} \cup {t \in TextsUpTo(MaxFileLen) : Cardinality(KeyLines(t)) <= 1}

InitPush ==
    /\ RestState
    /\ hist = <<>> /\ wr = NoCall /\ stream = NoCall /\ khcall = NoCall /\ jx = NoCall /\ gt = NoCall /\ kw = NoCall /\ rf = NoCall
    /\ \E f \in FirstFiles :
          authk = [called |-> FALSE, n |-> 0, first |-> f, pre |-> f, file |-> f]

\* One execution of the fragment on the node
P_Provision ==
    /\ authk.n < MaxBoots
    /\ \E account_ok \in BOOLEAN :
          authk' = [called |-> authk.called \/ account_ok,
                    n |-> authk.n + 1,
                    first |-> authk.first,
                    pre |-> authk.file,
                    file |-> provision_script(authk.file, PUBKEY, account_ok)]
    /\ UNCHANGED <<rvars, mvars>>
    /\ UNCHANGED <<hist, stream, wr, khcall, jx, gt, kw, rf>>

NextPush == P_Provision

SpecPush == InitPush /\ [][NextPush]_vars

IsPrefix(a, b) == Len(a) <= Len(b) /\ SubSeq(b, 1, Len(a)) = a

\* C18: after any number of executions of the fragment with the same key the
\* authorized-keys file holds the key line exactly once, all lines that were
\* in it before are kept, and the file does not grow with the number of runs.
C18_KeyOnceLinesKept ==
    authk.called =>
        /\ Cardinality(KeyLines(authk.file)) = 1
        /\ IsPrefix(splitlines(touch(authk.first)), splitlines(authk.file))
        /\ Len(authk.file) <= Len(touch(authk.first)) + 2

-----------------------------------------------------------------------------
(* _extract_json_object on response texts (SpecJson). A text is a sequence   *)
(* of tokens: an opening brace, a closing brace, a member `"k": 1`, a key    *)
(* with its colon `"k":` that awaits a value, and a word of banner text.     *)

LB == <<"{">>
RB == <<"}">>
KV == <<"\"k\": 1">>
KO == <<"\"k\":">>
TXT == <<"banner">>

JsonTokens == {LB, RB, KV, KO, TXT}

RECURSIVE IsObject(_)
\* The JSON grammar on these tokens: {} or {"k": 1} or {"k": object}
IsObject(t) ==
    /\ Len(t) >= 2
    /\ t[1] = LB /\ t[Len(t)] = RB
    /\ LET inner == SubSeq(t, 2, Len(t) - 1)
       IN \/ inner = <<>>
          \/ inner = <<KV>>
          \/ Len(inner) >= 3 /\ inner[1] = KO /\ IsObject(Tail(inner))

\* json.loads(t): the object, here held as its own text, or JSONDecodeError
json_loads(t) ==
    IF IsObject(t) THEN [raised |-> "", value |-> t]
    ELSE [raised |-> "JSONDecodeError", value |-> <<>>]

\* str.find / str.rfind of one token: a position from 1, or 0 for Python's -1
find(t, tok) ==
    IF \E i \in 1..Len(t) : t[i] = tok
    THEN CHOOSE i \in 1..Len(t) : t[i] = tok /\ \A j \in 1..(i - 1) : t[j] # tok
    ELSE 0

rfind(t, tok) ==
    IF \E i \in 1..Len(t) : t[i] = tok
    THEN CHOOSE i \in 1..Len(t) : t[i] = tok /\ \A j \in (i + 1)..Len(t) : t[j] # tok
    ELSE 0

None == [none |-> TRUE, value |-> <<>>]
Some(v) == [none |-> FALSE, value |-> v]

_extract_json_object(text) ==
    IF text = <<>> THEN None
    ELSE LET s == find(text, LB)
             e == rfind(text, RB)
         IN IF s = 0 \/ e = 0 \/ e <= s THEN None
            ELSE LET r == json_loads(SubSeq(text, s, e))
                 IN IF r.raised # "" THEN None ELSE Some(r.value)

RECURSIVE JsonTexts(_)
JsonTexts(n) ==
    IF n = 0 THEN {<<>>}
    ELSE LET shorter == JsonTexts(n - 1)
         IN shorter \cup {Append(t, a) : t \in {u \in shorter : Len(u) = n - 1},
                                         a \in JsonTokens}

InitJson ==
    /\ RestState
    /\ hist = <<>> /\ wr = NoCall /\ stream = NoCall /\ khcall = NoCall /\ authk = NoCall
    /\ jx = NoCall /\ gt = NoCall /\ kw = NoCall /\ rf = NoCall

\* One call of _extract_json_object
J_Extract ==
    /\ \E text \in JsonTexts(MaxTokens) :
          jx' = [called |-> TRUE, text |-> text, result |-> _extract_json_object(text)]
    /\ UNCHANGED <<rvars, mvars>>
    /\ UNCHANGED <<hist, stream, wr, khcall, authk, gt, kw, rf>>

NextJson == J_Extract

SpecJson == InitJson /\ [][NextJson]_vars

\* Where the well-formed objects of a text begin and end
ObjectsIn(t) ==
    {se \in (1..Len(t)) \X (1..Len(t)) : se[1] < se[2] /\ IsObject(SubSeq(t, se[1], se[2]))}

\* The last of them: the one that ends last, and of those that end there the
\* outermost
LastObjectIn(t) ==
    LET se == CHOOSE x \in ObjectsIn(t) :
                 \A y \in ObjectsIn(t) : y[2] < x[2] \/ (y[2] = x[2] /\ y[1] >= x[1])
    IN SubSeq(t, se[1], se[2])

\* C20: for every response text _extract_json_object returns the last
\* well-formed JSON object that the text contains, whatever text surrounds it
\* (braces and earlier objects included), and None only when the text
\* contains no well-formed object.
C20_ExtractLastObject ==
    jx.called =>
        jx.result = IF ObjectsIn(jx.text) = {} THEN None
                    ELSE Some(LastObjectIn(jx.text))

-----------------------------------------------------------------------------
(* Termination of main(): a run of Spec takes a step whenever the external   *)
(* call of that step returns; what is shown is that only boundedly many      *)
(* steps can be taken and that no position short of the end is without one.  *)

Terminated == pc \in {"done", "aborted"}

\* A step of main() is there to be taken: the guards of the actions of Next,
\* position by position
CanStep ==
    CASE pc \in {"keys", "render"} -> idx \in 1..Len(PLANES)
      [] pc = "salt_wait" -> probes < SALT_PING_RETRIES \/ probes >= SALT_PING_RETRIES
      [] pc = "gate" -> gate.pending # {}
      [] pc \in {"start", "settle", "known_hosts", "ensure_user", "push_key",
                 "reach", "ansible", "mine_update"} -> TRUE
      [] OTHER -> FALSE

\* The steps that main() can still take from a position, at most: the
\* statements ahead of it, the iterations that its loop has left, and the
\* probes that salt_ping_wait has left
StepsLeft ==
    CASE pc \in {"done", "aborted"} -> 0
      [] pc = "mine_update" -> 1
      [] pc = "ansible" -> 2
      [] pc = "gate" -> 3 + (MaxGateTicks - gate.ticks)
      [] pc = "reach" -> 4 + MaxGateTicks
      [] pc = "push_key" -> 5 + MaxGateTicks
      [] pc = "ensure_user" -> 6 + MaxGateTicks
      [] pc = "known_hosts" -> 7 + MaxGateTicks
      [] pc = "settle" -> 8 + MaxGateTicks
      [] pc = "render" -> 9 + MaxGateTicks + (Len(PLANES) - idx)
      [] pc = "salt_wait" ->
            10 + MaxGateTicks + Len(PLANES) + (SALT_PING_RETRIES - probes)
      [] pc = "keys" ->
            11 + MaxGateTicks + Len(PLANES) + SALT_PING_RETRIES + (Len(PLANES) - idx)
      [] OTHER -> 12 + MaxGateTicks + 2 * Len(PLANES) + SALT_PING_RETRIES

\* wait_for_tcp makes at most one connect per sleep before its deadline, and
\* returns at the latest one connect timeout after it
TcpLoopBounded ==
    \A a \in TcpAttempts :
        /\ wait_for_tcp(a, TCP_TIMEOUT).tries <= TCP_TIMEOUT
        /\ wait_for_tcp(a, TCP_TIMEOUT).now <= TCP_TIMEOUT + TCP_PER_TRY

\* salt_cmd makes at most retries + 1 invocations
SaltCmdLoopBounded ==
    \A a \in AttemptSeqs(SALT_CMD_RETRIES + 1) :
        salt_cmd(a, <<>>, SALT_CMD_RETRIES).tries <= SALT_CMD_RETRIES + 1

\* C21: every run of main() in which every external call returns ends, with
\* DONE or with an error: short of the end a step can always be taken, every
\* step uses up one of the boundedly many steps that are left, so that no
\* loop goes round for ever; salt_ping_wait makes at most SALT_PING_RETRIES
\* probes, the gate at most as many iterations as sleeps fit before its
\* deadline, wait_for_tcp at most one connect per sleep before its deadline,
\* and salt_cmd at most retries + 1 invocations.
C21_BoundedTermination ==
    /\ [](/\ StepsLeft \in 0..(12 + MaxGateTicks + 2 * Len(PLANES) + SALT_PING_RETRIES)
          /\ StepsLeft = 0 <=> Terminated
          /\ ~Terminated => CanStep
          /\ probes <= SALT_PING_RETRIES
          /\ gate.ticks <= MaxGateTicks
          /\ TcpLoopBounded
          /\ SaltCmdLoopBounded)
    /\ [][StepsLeft' < StepsLeft]_vars

\* C21, its case: a hub's run has ended with DONE after salt_ping_wait has
\* used its last probe and the gate has gone round to its deadline
C21_Witness ==
    /\ pc = "done"
    /\ probes = SALT_PING_RETRIES
    /\ gate.ticks = MaxGateTicks /\ gate.timed_out /\ gate.pending # {}

-----------------------------------------------------------------------------
(* The reachability gate on its own (SpecGate): a hub enters                 *)
(* wait_for_ansible_reachability with one of the inventories; `gt` holds     *)
(* what the last iteration of the loop did.                                   *)

InitGate ==
    /\ host = H_master /\ seed = SeedFull
    /\ iface = "wg1"
    /\ InitFiles(<<IFACE, LF>>)
    /\ InitKeys
    /\ prev = NoCall /\ last = NoCall /\ nrenders = 0
    /\ pc = "reach" /\ idx = 0 /\ strict \in BOOLEAN /\ require_all = TRUE
    /\ user_exists = TRUE /\ akey = NoKeyPair /\ inventory \in Inventories
    /\ site_exists = TRUE /\ known_hosts = NoFile /\ probes = 0 /\ ping = NoPing
    /\ scall = NoCall /\ gate = NoGate /\ trace = <<>>
    /\ failure = [phase |-> "", why |-> ""] /\ exit_code = -1
    /\ InitOther

\* One iteration of the gate's loop, with what it did kept in gt
GT_Tick ==
    /\ pc = "gate"
    /\ gate.pending # {}
    /\ gate.ticks < MaxGateTicks
    /\ \E out \in [gate.pending -> GateOutcomes] :
          LET r == gate_tick(gate, out)
          IN /\ GateIteration(r)
             /\ gt' = [called |-> TRUE, pre |-> gate.pending, out |-> out,
                       raised |-> r.raised, tried |-> r.checks.tried,
                       done |-> r.checks.done]
    /\ UNCHANGED <<hist, stream, wr, khcall, authk, jx, kw, rf>>

NextGate == G_Start \/ GT_Tick \/ G_Timeout

SpecGate == InitGate /\ [][NextGate]_vars

\* The non-loopback addresses of the inventory: what the gate starts from
InitialIps == ToSet(gate_ips(inventory_targets(inventory)))

\* The loop of the gate has been entered
InLoop == pc = "gate" \/ gt.called \/ gate.timed_out

\* `done` as the program holds it: made anew by every iteration
DoneSet == IF gt.called THEN gt.done ELSE {}

\* What C22 says of every iteration: pending never grows, an address leaves
\* pending only when its route check and then its connect to port 22 have
\* succeeded in this iteration, and no connect is tried where the route check
\* has failed
IterationRules ==
    gt.called =>
        /\ gate.pending \subseteq gt.pre
        /\ \A ip \in gt.pre \ gate.pending : gt.out[ip] = "tcp_ok"
        /\ \A ip \in gt.tried : gt.out[ip] \in {"tcp_ok", "tcp_fail"}
        /\ \A ip \in gt.done : ip \in gt.tried

\* C22 as it is stated: in every state of the gate pending and done are
\* disjoint and their union is the initial set of non-loopback addresses
\* (with the rules of an iteration).
C22_GateSets_AsStated ==
    /\ InLoop => /\ gate.pending \cap DoneSet = {}
                 /\ gate.pending \cup DoneSet = InitialIps
    /\ IterationRules

\* C22, amended: pending is a part of the initial set and never grows; done
\* holds the addresses that have succeeded in the last iteration only, so that
\* after every iteration that has run to its end pending and done are
\* disjoint and their union is what was pending when that iteration began; an
\* iteration that raises leaves pending as it was (with the rules of an
\* iteration).
C22_GateStateMachine ==
    /\ gate.pending \subseteq InitialIps
    /\ (gt.called /\ gt.raised = "") => /\ gate.pending \cap DoneSet = {}
                                       /\ gate.pending \cup DoneSet = gt.pre
    /\ (gt.called /\ gt.raised # "") => gate.pending = gt.pre
    /\ IterationRules

\* C22, its case: a second iteration in which one address was refused for
\* want of a route, after a first one in which the other address had left
\* pending
C22_Witness ==
    /\ gt.called /\ gate.ticks = 2
    /\ gt.pre # InitialIps /\ gt.pre # {}
    /\ \E ip \in gt.pre : gt.out[ip] = "no_route"
    /\ gate.pending = gt.pre

-----------------------------------------------------------------------------
(* A render that raises, in a run of main() *)

\* The run has ended in a raise of render_plane_conf_from_seed
RenderFailed == pc = "aborted" /\ failure.phase = "render"

\* C23: a render that raises leaves the config and the backups of its plane
\* (and of every other plane) as they were before the call, restarts no unit
\* and ends the run; after it the planes before the failed one have been
\* rendered and keep what was written, the planes after it have not been
\* rendered, hold their first config, have no backup and no restart.
C23_FailedRenderFrame ==
    /\ [](RenderFailed =>
            /\ last.called /\ last.raised # "" /\ last.restart = "none"
            /\ last.raised = failure.why
            /\ conf[last.plane] = last.pre /\ conf[last.plane] = conf0[last.plane]
            /\ backups[last.plane] = {} /\ Restarts(last.plane) = {}
            /\ \A q \in Planes :
                  /\ PlaneNo(q) < PlaneNo(last.plane) =>
                        Rendered(q) /\ (conf[q] # conf0[q] <=> Restarts(q) # {})
                  /\ PlaneNo(q) > PlaneNo(last.plane) =>
                        /\ ~Rendered(q) /\ conf[q] = conf0[q]
                        /\ backups[q] = {} /\ Restarts(q) = {})
    /\ [][(pc = "render" /\ last'.raised # "") =>
            /\ conf' = conf /\ backups' = backups
            /\ trace' = Append(trace, <<"render", last'.plane>>)
            /\ last'.plane = PLANES[idx]
            /\ RenderFailed']_vars
    /\ [][(pc = "render" /\ pc' = "aborted" /\ failure'.phase = "render")
            => last'.raised # ""]_vars

\* C23, its case: the render of wg2 has raised after wg1 had been written,
\* backed up and restarted
C23_Witness ==
    /\ RenderFailed /\ last.plane = "wg2"
    /\ conf["wg1"] # conf0["wg1"] /\ backups["wg1"] # {} /\ Restarts("wg1") # {}

-----------------------------------------------------------------------------
(* ensure_wg_keys_local step by step, with a kill of the process at any     *)
(* point inside it and the next run of the orchestrator (SpecKeyKill).      *)
(* A file is KeyAbsent, "" (there, empty) or its text; Path.write_text      *)
(* opens the file for writing, which creates or empties it, and then writes.*)

EmptyFile == ""

InitKeyKill ==
    /\ host = H_master /\ seed = SeedFull
    /\ iface \in Planes
    /\ InitFiles(<<IFACE, LF>>)
    /\ \E fresh \in SUBSET Planes :
          /\ wgkey = [p \in Planes |-> IF p \in fresh THEN KeyAbsent ELSE OldKey(p)]
          /\ wgpub = [p \in Planes |-> IF p \in fresh THEN KeyAbsent ELSE OldPub(p)]
    /\ keygen = 3
    /\ kcall = [called |-> FALSE, n |-> 0]
    /\ prev = NoCall /\ last = NoCall /\ nrenders = 0
    /\ pc = "idle" /\ idx = 0 /\ strict = FALSE /\ require_all = TRUE
    /\ user_exists = TRUE /\ akey = NoKeyPair /\ inventory = InvFull
    /\ site_exists = TRUE /\ known_hosts = NoFile /\ probes = 0 /\ ping = NoPing
    /\ scall = NoCall /\ gate = NoGate /\ trace = <<>>
    /\ failure = [phase |-> "", why |-> ""] /\ exit_code = -1
    /\ InitOther

KeyKillFrame ==
    /\ UNCHANGED <<host, seed, iface, conf, conf0, backups, clock, kcall, prev, last, nrenders>>
    /\ UNCHANGED mvars
    /\ UNCHANGED <<hist, stream, wr, khcall, authk, jx, gt, rf>>

\* The positions inside ensure_wg_keys_local
KeyInside == {"check", "genkey", "open_key", "write_key", "pubkey", "open_pub", "write_pub"}

KeyRuns == IF kw.called THEN kw.runs ELSE 0

KeyPos == IF kw.called THEN kw.pos ELSE "none"

\* A run of the orchestrator comes to ensure_wg_keys_local(iface): the first
\* run, or the next one after the run before has ended or was killed
K_Call ==
    /\ KeyPos \notin KeyInside
    /\ KeyRuns < MaxKeyRuns
    /\ kw' = [called |-> TRUE, pos |-> "check", runs |-> KeyRuns + 1,
              after_kill |-> KeyPos = "killed",
              private |-> "", pubkey |-> ""]
    /\ UNCHANGED <<wgkey, wgpub, keygen>>
    /\ KeyKillFrame

\* if key.exists() and pub.exists(): return
K_Check ==
    /\ KeyPos = "check"
    /\ kw' = [kw EXCEPT !.pos = IF wgkey[iface] # KeyAbsent /\ wgpub[iface] # KeyAbsent
                                 THEN "returned" ELSE "genkey"]
    /\ UNCHANGED <<wgkey, wgpub, keygen>>
    /\ KeyKillFrame

\* private = run(["wg", "genkey"], check=True) + "\n"
K_Genkey ==
    /\ KeyPos = "genkey"
    /\ \E genkey_ok \in BOOLEAN :
          IF genkey_ok
          THEN /\ kw' = [kw EXCEPT !.pos = "open_key", !.private = wg_genkey(keygen + 1)]
               /\ keygen' = keygen + 1
          ELSE /\ kw' = [kw EXCEPT !.pos = "raised"]
               /\ keygen' = keygen
    /\ UNCHANGED <<wgkey, wgpub>>
    /\ KeyKillFrame

\* key.write_text(private): open(key, "w")
K_OpenKey ==
    /\ KeyPos = "open_key"
    /\ wgkey' = [wgkey EXCEPT ![iface] = EmptyFile]
    /\ kw' = [kw EXCEPT !.pos = "write_key"]
    /\ UNCHANGED <<wgpub, keygen>>
    /\ KeyKillFrame

\* key.write_text(private): write and close
K_WriteKey ==
    /\ KeyPos = "write_key"
    /\ wgkey' = [wgkey EXCEPT ![iface] = kw.private]
    /\ kw' = [kw EXCEPT !.pos = "pubkey"]
    /\ UNCHANGED <<wgpub, keygen>>
    /\ KeyKillFrame

\* pubkey = run(["bash", "-lc", "wg pubkey < key"], check=True) + "\n"
K_Pubkey ==
    /\ KeyPos = "pubkey"
    /\ \E pubkey_ok \in BOOLEAN :
          kw' = IF pubkey_ok
                THEN [kw EXCEPT !.pos = "open_pub", !.pubkey = wg_pubkey(wgkey[iface])]
                ELSE [kw EXCEPT !.pos = "raised"]
    /\ UNCHANGED <<wgkey, wgpub, keygen>>
    /\ KeyKillFrame

\* pub.write_text(pubkey): open(pub, "w")
K_OpenPub ==
    /\ KeyPos = "open_pub"
    /\ wgpub' = [wgpub EXCEPT ![iface] = EmptyFile]
    /\ kw' = [kw EXCEPT !.pos = "write_pub"]
    /\ UNCHANGED <<wgkey, keygen>>
    /\ KeyKillFrame

\* pub.write_text(pubkey): write and close; the function returns
K_WritePub ==
    /\ KeyPos = "write_pub"
    /\ wgpub' = [wgpub EXCEPT ![iface] = kw.pubkey]
    /\ kw' = [kw EXCEPT !.pos = "returned"]
    /\ UNCHANGED <<wgkey, keygen>>
    /\ KeyKillFrame

\* The process is killed somewhere inside ensure_wg_keys_local: the files
\* stay as they are at that point
K_Kill ==
    /\ KeyPos \in KeyInside
    /\ kw' = [kw EXCEPT !.pos = "killed"]
    /\ UNCHANGED <<wgkey, wgpub, keygen>>
    /\ KeyKillFrame

NextKeyKill ==
    \/ K_Call \/ K_Check \/ K_Genkey \/ K_OpenKey \/ K_WriteKey
    \/ K_Pubkey \/ K_OpenPub \/ K_WritePub \/ K_Kill

SpecKeyKill == InitKeyKill /\ [][NextKeyKill]_vars

\* C24: when the run before was killed inside ensure_wg_keys_local and this
\* run's ensure_wg_keys_local has returned, the key file and the public key
\* file exist and the public key file holds the non-empty public key derived
\* from the key file.
C24_KeypairAfterKill ==
    (KeyPos = "returned" /\ kw.after_kill) =>
        /\ wgkey[iface] \notin {KeyAbsent, EmptyFile}
        /\ wgpub[iface] \notin {KeyAbsent, EmptyFile}
        /\ wgpub[iface] = wg_pubkey(wgkey[iface])

-----------------------------------------------------------------------------
(* wg-refresh-planes.py (SpecRefresh): runs of its main() on a hub whose    *)
(* plane configs exist or not and whose backup directory is empty or holds  *)
(* the backup apply.py made in second 0.                                    *)

\* A refresh that keeps the number of backups under the cap of apply.py
copy2_pruned(bks, cur, ts) ==
    {b \in prune_backups(bks) : b.ts # ts} \cup {[ts |-> ts, text |-> cur]}

\* shutil.copy2(cfg, bak) with bak = <conf>.bak.<ts>: a file of that name is
\* created, or overwritten when it is there already
copy2(bks, cur, ts) ==
    {b \in bks : b.ts # ts} \cup {[ts |-> ts, text |-> cur]}

\* One iteration of the loop of main(): the backup when the config exists
refresh_plane(cur, bks, ts) ==
    IF cur # NoFile THEN copy2(bks, cur, ts) ELSE bks

T_old == <<IFACE, LF, <<"Address = 10.78.0.1/24">>, LF>>

InitRefresh ==
    /\ host = H_master /\ seed = SeedFull
    /\ iface = "wg1"
    /\ \E missing \in SUBSET Planes, kept \in SUBSET Planes :
          /\ conf = [p \in Planes |-> IF p \in missing THEN NoFile ELSE <<IFACE, LF>>]
          /\ backups = [p \in Planes |-> IF p \in kept
                                         THEN {[ts |-> 0, text |-> T_old]} ELSE {}]
    /\ conf0 = conf
    /\ clock = 0
    /\ InitKeys
    /\ prev = NoCall /\ last = NoCall /\ nrenders = 0
    /\ InitIdle

RefreshFrame ==
    /\ UNCHANGED <<host, seed, iface, conf0, wgkey, wgpub, keygen, prev, last, nrenders, kcall>>
    /\ UNCHANGED <<pc, idx, strict, require_all, user_exists, akey, inventory, site_exists,
                   known_hosts, probes, ping, scall, gate, failure, exit_code>>
    /\ UNCHANGED <<hist, stream, wr, khcall, authk, jx, gt, kw>>

RefreshRuns == IF rf.called THEN rf.runs ELSE 0

RefreshNext == IF rf.called THEN rf.next ELSE Len(PLANES) + 1

\* main(): ts = time.strftime("%Y%m%d%H%M%S")
R_Start ==
    /\ RefreshNext > Len(PLANES)
    /\ RefreshRuns < MaxRefreshRuns
    /\ rf' = [called |-> TRUE, runs |-> RefreshRuns + 1, ts |-> clock, next |-> 1,
              plane |-> "", pre_conf |-> conf, pre_backups |-> backups,
              restarted |-> <<>>]
    /\ UNCHANGED <<conf, backups, clock, trace>>
    /\ RefreshFrame

\* for iface in ("wg1","wg2","wg3"): copy when cfg.exists(), then
\* run("systemctl restart wg-quick@{iface}.service || true"), whose exit
\* status is 0 in any case and is not looked at
R_Plane ==
    /\ RefreshNext <= Len(PLANES)
    /\ LET p == PLANES[rf.next]
       IN /\ backups' = [backups EXCEPT ![p] = refresh_plane(conf[p], backups[p], rf.ts)]
          /\ conf' = conf
          /\ trace' = Append(trace, <<"restart", p>>)
          /\ rf' = [rf EXCEPT !.next = rf.next + 1, !.plane = p,
                              !.pre_conf = conf, !.pre_backups = backups,
                              !.restarted = Append(rf.restarted, p)]
    /\ UNCHANGED clock
    /\ RefreshFrame

\* A second passes
R_Tick ==
    /\ clock < MaxRefreshClock
    /\ clock' = clock + 1
    /\ UNCHANGED <<conf, backups, trace, rf>>
    /\ RefreshFrame

NextRefresh == R_Start \/ R_Plane \/ R_Tick

SpecRefresh == InitRefresh /\ [][NextRefresh]_vars

\* An iteration of the loop has been done for plane rf.plane
RefreshDid == rf.called /\ rf.plane # ""

\* What C25 says besides the count of the backups: the configs are what they
\* were (so no stanza is generated), the backups of the other planes are
\* untouched, a missing config gets no backup, and the units restarted in
\* this run are those of the planes gone through, in order, missing or not
RefreshRules ==
    /\ conf = conf0
    /\ RefreshDid =>
        /\ conf = rf.pre_conf
        /\ \A q \in Planes \ {rf.plane} : backups[q] = rf.pre_backups[q]
        /\ conf[rf.plane] = NoFile => backups[rf.plane] = rf.pre_backups[rf.plane]
        /\ rf.restarted = SubSeq(PLANES, 1, rf.next - 1)
        /\ Len(trace) >= Len(rf.restarted)
        /\ SubSeq(trace, Len(trace) - Len(rf.restarted) + 1, Len(trace))
              = [i \in 1..Len(rf.restarted) |-> <<"restart", rf.restarted[i]>>]

\* C25 as it is stated: a run never changes a config; for each plane it adds
\* one backup copy when the config exists, deleting no older backup, and
\* restarts the unit, also when the config is missing.
C25_RefreshFrame_AsStated ==
    /\ RefreshRules
    /\ (RefreshDid /\ conf[rf.plane] # NoFile) =>
          /\ rf.pre_backups[rf.plane] \subseteq backups[rf.plane]
          /\ Cardinality(backups[rf.plane]) = Cardinality(rf.pre_backups[rf.plane]) + 1

\* C25, amended: the same, the backup being the file named by the second in
\* which the run began: it holds the config's text, every backup of another
\* name is kept, and a backup of that name that is there already (made in
\* the same second) is overwritten, so that then no file is added.
C25_RefreshFrame ==
    /\ RefreshRules
    /\ (RefreshDid /\ conf[rf.plane] # NoFile) =>
          /\ [ts |-> rf.ts, text |-> conf[rf.plane]] \in backups[rf.plane]
          /\ \A b \in rf.pre_backups[rf.plane] : b.ts # rf.ts => b \in backups[rf.plane]
          /\ \A b \in backups[rf.plane] : b.ts # rf.ts => b \in rf.pre_backups[rf.plane]
          /\ \A b, c \in backups[rf.plane] : b.ts = c.ts => b = c
          /\ Cardinality(backups[rf.plane]) =
                Cardinality({b \in rf.pre_backups[rf.plane] : b.ts # rf.ts}) + 1

\* C25, its case: a second run, begun in a later second, has gone through the
\* three planes: wg1 has the backups of both runs and the older one of
\* apply.py, wg2 has no config, no backup, and was restarted
C25_Witness ==
    /\ RefreshDid /\ rf.runs = 2 /\ rf.next > Len(PLANES) /\ rf.ts > 0
    /\ Cardinality(backups["wg1"]) > BACKUP_KEEP
    /\ conf["wg2"] = NoFile /\ backups["wg2"] = {}
    /\ Len(trace) = 2 * Len(PLANES)

=============================================================================
